---- MODULE Spec2Model ----
(***************************************************************************)
(* A model of the cluster-wide key -> numeric-ID allocator of              *)
(* pkg/allocator/allocator.go: several nodes, each with its own Allocator  *)
(* (LocalKeys, IDPool, main cache, slaveKeysMutex), sharing one backend    *)
(* (master keys, per-node secondary keys, per-key locks).  Every backend   *)
(* call and every lock acquisition of Allocate, lockedAllocate, Release    *)
(* and Get is one atomic step; the steps of different goroutines           *)
(* interleave freely.                                                      *)
(***************************************************************************)
EXTENDS Integers, FiniteSets, Sequences, TLC

\* ------------------------------------------------------------------ bounds
\* Largest ID an allocator is configured with (WithMax).
MaxID == 2
\* Largest value of maxAllocAttempts that is configured (WithMaxAllocAttempts).
MaxAttempts == 2
\* Behaviours under any configuration, with faults: the numbers of Allocate,
\* Release and Get calls and of faults (a backend call that fails, a loss of
\* the backend's data, a call made with a canceled context).
MaxAllocs == 1
MaxReleases == 1
MaxGets == 1
MaxFaults == 2
\* Number of master keys the cluster's manager creates (operatorIDManagement).
MaxCreates == 1
\* Behaviours of calls made one after the other on one node, without faults.
SoloAllocs == 3
SoloReleases == 2
\* Behaviours of calls made one after the other on two nodes, without faults.
SerialAllocs == 4
SerialReleases == 1
\* Behaviours of concurrent calls on one node, with faults.
RaceAllocs == 2
RaceReleases == 1
RaceFaults == 1
RaceParallel == 2
\* Behaviours of two concurrent Allocates on one node, with two faults.
LossAllocs == 2
LossFaults == 2
\* Behaviours with the local-key sync goroutine: the rounds it runs; on node
\* A alone the numbers of Allocate and Release calls, of faults and of calls
\* in progress at once; on the two nodes the numbers of Allocate calls and of
\* faults.
SyncRounds == 1
SyncAllocs == 2
SyncReleases == 1
SyncFaults == 1
SyncParallel == 2
PairAllocs == 2
PairFaults == 1
\* Behaviours with a prefix mask (WithPrefixMask): the largest mask, and the
\* numbers of Allocate and Release calls and of faults.
MaxMask == 4
MaskAllocs == 3
MaskReleases == 1
MaskFaults == 1
\* Behaviours of concurrent Allocates on the two nodes: the numbers of calls
\* and of faults.
CrossAllocs == 2
CrossFaults == 1
\* Behaviours of the remote caches of one node: the numbers of
\* upserts and deletes the remote caches receive, of RemoveRemoteKVStore calls,
\* of remote caches that are watched, and of cancellations of their watch.
RemoteEvents == 3
RemoteRemoves == 1
RemoteWatches == 2
RemoteStops == 2
\* Behaviours of lookups that include the remote caches: the numbers of
\* lookups, of failing backend calls, of upserts and deletes the remote caches
\* receive, and of remote caches that are watched.
RemoteGets == 1
RemoteFaults == 1
LookupEvents == 2
LookupWatches == 2

\* ------------------------------------------------------------ fixed sets
\* idpool.NoID, the sentinel "no ID".
NoID == 0
Nodes == {"A", "B"}
\* Goroutines calling into the allocator: two on node A, one on node B.
Procs == {"a1", "a2", "b1"}
NodeOf(p) == IF p = "b1" THEN "B" ELSE "A"
Keys == {"k1", "k2"}
\* The option values a deployment passes to NewAllocator.
\* The prefix masks: none, one that shares a bit with the IDs of the range,
\* one above the range.
MaskOptions == {0, 1, MaxMask}
MinOptions == {0, 1}
MaxOptions == {1, MaxID}
AttemptOptions == 0..MaxAttempts
\* Remote caches that are created with NewRemoteCache, and the cluster names
\* they are created for: c1 and c2 for the same name (a reconnection).
RCs == {"c1", "c2", "c3"}
RemoteNames == {"r1", "r2"}
NameOf(rc) == IF rc = "c3" THEN "r2" ELSE "r1"
\* nil, for a remote cache and for a key.
None == "none"

VARIABLES
    \* Allocator options (the same on every node of the cluster)
    min, max, maxAllocAttempts, operatorIDManagement, prefixMask,
    \* The allocator whose Delete, start and remote Watch are followed
    gc,               \* [started, listDone, closes, loop, rounds, late, watch, ctx, deletes]
    \* What the behaviour covers
    callers,          \* the goroutines that make calls
    parallel,         \* how many calls may be in progress at once
    left,             \* the calls and faults the behaviour may still make (used:
                      \* the faults it has made; unreleased: the Backend.Release
                      \* calls that have failed)
    \* per node: the Allocator
    alloc,            \* "none" (not constructed), "nil" (NewAllocator failed), "ready"
    initialListDone,  \* the initialListDone channel is closed
    localKeys,        \* [Keys -> [val, refcnt, verified]], val = NoID: no entry
    idPool,           \* [min..max -> "avail" | "leased" | "used"]
    mainCache,        \* [Keys -> ID], NoID: no entry
    slaveKeysMutex,   \* the goroutine holding the mutex, or "free"
    \* the shared backend
    master,           \* set of [id, key]: the master keys
    slave,            \* set of [node, key, id]: the secondary (per-node) keys
    kvLock,           \* [Keys -> goroutine holding the per-key lock, or "free"]
    \* per goroutine
    pc,               \* where the goroutine is
    loc,              \* the locals of the call in progress
    ret,              \* what the call that has just returned returned
    \* history
    epochIDs,         \* [Keys -> IDs returned for the key while its master key exists]
    creators,         \* [Keys -> the Allocates that returned isNew = true for the key
                      \*  during the life of its master key]
    granted,          \* set of [node, key, id]: IDs returned and still held on the node
    refs,             \* [Nodes -> [Keys -> successful Allocates less successful Releases]]
    \* remote caches of the allocator of node A
    remoteCaches,     \* [RemoteNames -> the registered remote cache, or None]
    rcCache,          \* [RCs -> [ID -> key or None]]: the entries of the remote cache
    rcListDone,       \* [RCs -> the cache's listDone channel is closed]
    rcCtx,            \* [RCs -> the context given to Watch is canceled]
    rcClosed,         \* [RCs -> rc.close() was called]
    rcPc,             \* [RCs -> where the Watch of the remote cache is]
    rcOld,            \* [RCs -> the local variable old of the Watch]
    rm,               \* the RemoveRemoteKVStore in progress: [pc, name, old], and
                      \* before: the caches of the name whose Watch had started
    events,           \* the delete events emitted by the drain of this step
    canceledFirst,    \* the remote caches that wait in the select of their Watch
                      \* with a context that was canceled before their first sync
    \* the local-key sync goroutine of node A
    sync              \* [pc, ids, key, id, rounds, err, recreated, released]

cfgVars == <<min, max, maxAllocAttempts, operatorIDManagement, prefixMask, callers, parallel,
             gc>>
nodeVars == <<alloc, initialListDone, localKeys, idPool, mainCache, slaveKeysMutex>>
backendVars == <<master, slave, kvLock>>
procVars == <<pc, loc, ret>>
histVars == <<epochIDs, creators, granted, refs, left>>
InProgress == {q \in Procs : pc[q] # "idle"}
remoteVars == <<remoteCaches, rcCache, rcListDone, rcCtx, rcClosed, rcPc, rcOld, rm, events,
                canceledFirst>>
vars == <<cfgVars, nodeVars, backendVars, procVars, histVars, remoteVars, sync>>

\* ------------------------------------------------------------- LocalKeys
NoEntry == [val |-> NoID, refcnt |-> 0, verified |-> FALSE]

\* localKeys.lookupKey: the ID of the entry, NoID when there is none.
lookupKey(lk, k) == lk[k].val

\* localKeys.use: the refcount is incremented when the entry exists.
useKeys(lk, k) ==
    IF lk[k].val # NoID THEN [lk EXCEPT ![k].refcnt = @ + 1] ELSE lk

\* localKeys.allocate: whether it reports an error (known key, different ID).
allocateErr(lk, k, id) == lk[k].val # NoID /\ lk[k].val # id
\* localKeys.allocate: firstUse.
allocateFirstUse(lk, k) == lk[k].val = NoID
\* localKeys.allocate: the table afterwards.
allocateKeys(lk, k, id) ==
    IF lk[k].val = NoID
    THEN [lk EXCEPT ![k] = [val |-> id, refcnt |-> 1, verified |-> FALSE]]
    ELSE IF lk[k].val = id THEN [lk EXCEPT ![k].refcnt = @ + 1] ELSE lk

\* localKeys.release: error when the key is unknown, else decrement and
\* remove the entry at zero.
releaseErr(lk, k) == lk[k].val = NoID
releaseLastUse(lk, k) == lk[k].val # NoID /\ lk[k].refcnt = 1
releaseKeys(lk, k) ==
    IF lk[k].val = NoID THEN lk
    ELSE IF lk[k].refcnt = 1 THEN [lk EXCEPT ![k] = NoEntry]
    ELSE [lk EXCEPT ![k].refcnt = @ - 1]

\* localKeys.verify: mark the entry verified (nothing when it vanished).
verifyKeys(lk, k) ==
    IF lk[k].val # NoID THEN [lk EXCEPT ![k].verified = TRUE] ELSE lk

\* ---------------------------------------------------------------- IDPool
\* The bitwise OR of two IDs.
RECURSIVE BitOr(_, _)
BitOr(a, b) ==
    IF a = 0 THEN b
    ELSE IF b = 0 THEN a
    ELSE (IF a % 2 = 1 \/ b % 2 = 1 THEN 1 ELSE 0) + 2 * BitOr(a \div 2, b \div 2)

\* No prefix mask is configured (WithPrefixMask is not used).
NoMask == 0

\* (for C32) a selection that hands out the leased ID as it is.
Unmasked(id) == id

\* selectAvailableID: id |= a.prefixMask.
Masked(id) == BitOr(id, prefixMask)

\* IDPool.LeaseAvailableID: the IDs it may hand out.
Available(pool) == {i \in DOMAIN pool : pool[i] = "avail"}
LeaseID(pool, i) == [pool EXCEPT ![i] = "leased"]
\* IDPool.Use: a leased ID becomes in use.
UseID(pool, i) == IF i \in DOMAIN pool THEN [pool EXCEPT ![i] = "used"] ELSE pool
\* IDPool.Release: the ID goes back to the available set.
ReleaseID(pool, i) == IF i \in DOMAIN pool THEN [pool EXCEPT ![i] = "avail"] ELSE pool

\* ----------------------------------------------------------------- cache
\* cache.get
cacheGet(c, k) == c[k]
\* cache.getByID: the keys the cache may answer for an ID, none for nil.
cacheGetByID(c, id) == {k \in DOMAIN c : c[k] = id}
\* cache.insert
cacheInsert(c, k, id) == [c EXCEPT ![k] = id]

\* --------------------------------------------------------------- backend
\* Backend.Get / GetIfLocked: the IDs the backend may answer for a key.
BackendGet(k) ==
    IF \E m \in master : m.key = k
    THEN {m.id : m \in {x \in master : x.key = k}}
    ELSE {NoID}
\* Backend.GetByID: the keys the backend may answer for an ID, none for nil.
BackendGetByID(id) == {m.key : m \in {x \in master : x.id = id}}
\* Backend.AllocateIDIfLocked is a conditional create: it succeeds only when
\* no master key exists for the ID.
CanCreate(id) == ~ \E m \in master : m.id = id
\* Backend.AcquireReference: the secondary key of the node is created on the
\* condition that a master key exists for the ID.
CanAcquire(id) == \E m \in master : m.id = id
AcquireSlave(n, k, id) ==
    {s \in slave : ~(s.node = n /\ s.key = k)} \cup {[node |-> n, key |-> k, id |-> id]}
\* Backend.Release: drop the node's secondary key of the key.
ReleaseSlave(n, k) == {s \in slave : ~(s.node = n /\ s.key = k)}
\* Backend.UpdateKeyIfLocked(reliablyMissing = true): re-create the master key
\* unless a master key of that ID exists.
RecreateMaster(k, id) ==
    IF \E m \in master : m.id = id THEN master ELSE master \cup {[id |-> id, key |-> k]}

\* A backend call of p may fail: on an injected fault, or because the context
\* it is given is canceled.  fault is TRUE for a failure that is injected.
MayFail(p) == left.fault > 0 \/ loc[p].ctx
Faults(p, failed) ==
    IF failed /\ ~loc[p].ctx THEN [left EXCEPT !.fault = @ - 1, !.used = @ + 1] ELSE left
\* The locals of a call that met a failing backend call: it no longer runs
\* against a working backend.
Faulted(l, failed) == IF failed THEN [l EXCEPT !.scen = "none"] ELSE l

\* ------------------------------------------------------------- goroutines
NoLoc == [op |-> "none", key |-> "k1", ctx |-> FALSE, attempt |-> 0,
          value |-> NoID, id |-> NoID, firstUse |-> FALSE, lastUse |-> FALSE,
          calls |-> {}, ctx0 |-> FALSE, scen |-> "none", cached0 |-> NoID,
          held0 |-> NoID, refs0 |-> 0, err |-> "nil", tries |-> 0, reserved |-> FALSE,
          unmaskedID |-> NoID]
NoRet == [proc |-> "none", op |-> "none", key |-> "k1", id |-> NoID, isNew |-> FALSE,
          firstUse |-> FALSE, lastUse |-> FALSE, err |-> "nil", calls |-> {},
          ctx0 |-> FALSE, scen |-> "none", cached0 |-> NoID, held0 |-> NoID,
          refs0 |-> 0, fast |-> FALSE, tries |-> 0, lastErr |-> "nil", ctx |-> FALSE,
          from |-> "none"]

\* (for C14) a construction that accepts every range.
RangeNeverInvalid(lo, hi) == FALSE

\* NewAllocator's validation of the configured range.
RangeInvalid(lo, hi) == lo < 1 \/ hi <= lo

\* NewAllocatorForGC: an allocator for RunGC only, with the configured range
\* unchecked; it has no local keys, no pool and no cache, and is not started.
NewAllocatorForGC(lo, hi) == "gc"

\* NewAllocator: nil with an error for an invalid range, else an allocator
\* whose pool holds min..max and whose main cache has begun its list.
NewAllocator(lo, hi) == IF RangeInvalid(lo, hi) THEN "nil" ELSE "ready"
\* The nodes that run an allocator.
Running == {NodeOf(p) : p \in callers}
NewIDPool(lo, hi) == IF RangeInvalid(lo, hi) THEN <<>> ELSE [i \in lo..hi |-> "avail"]

\* A key of another cluster member, which may hold the highest ID from the
\* start: its master key and that member's secondary key.
ForeignMaster == [id |-> MaxID, key |-> "kx"]
ForeignSlave == [node |-> "X", key |-> "kx", id |-> MaxID]

\* No delete event.
NoEvents == [by |-> "none", cache |-> None, ids |-> {}]

\* The allocator as NewAllocator returns it has no remote cache; no remote
\* cache has been created with NewRemoteCache and watched yet.
NoRemote ==
    /\ canceledFirst = {}
    /\ remoteCaches = [r \in RemoteNames |-> None]
    /\ rcCache = [rc \in RCs |-> [i \in 1..MaxID |-> None]]
    /\ rcListDone = [rc \in RCs |-> FALSE]
    /\ rcCtx = [rc \in RCs |-> FALSE]
    /\ rcClosed = [rc \in RCs |-> FALSE]
    /\ rcPc = [rc \in RCs |-> "new"]
    /\ rcOld = [rc \in RCs |-> None]
    /\ rm = [pc |-> "idle", name |-> "r1", old |-> None, before |-> {}]
    /\ events = NoEvents

\* The local-key sync goroutine before its first round: no snapshot, no key
\* in hand (rounds: the rounds it may still run; recreated: the keys whose
\* secondary key its UpdateKey has written anew; released: the keys it has
\* issued Backend.Release for).
NoSync == [pc |-> "idle", ids |-> [k \in Keys |-> NoID], key |-> "k1", id |-> NoID,
           rounds |-> 0, err |-> "nil", recreated |-> {}, released |-> {}]

\* An allocator that was not started, with the stopGC channel that
\* NewAllocator made: no Delete, no remote Watch.
NoGC == [started |-> FALSE, listDone |-> FALSE, closes |-> 0, loop |-> "wait", rounds |-> 0,
         late |-> FALSE, watch |-> "none", ctx |-> FALSE, deletes |-> 0]

\* The state once NewAllocator has returned on every node.
Constructed ==
    /\ alloc = [n \in Nodes |-> IF n \in Running THEN NewAllocator(min, max) ELSE "none"]
    /\ initialListDone = [n \in Nodes |-> FALSE]
    /\ localKeys = [n \in Nodes |-> [k \in Keys |-> NoEntry]]
    /\ idPool = [n \in Nodes |-> NewIDPool(min, max)]
    /\ mainCache = [n \in Nodes |-> [k \in Keys |-> NoID]]
    /\ slaveKeysMutex = [n \in Nodes |-> "free"]
    /\ kvLock = [k \in Keys |-> "free"]
    /\ pc = [p \in Procs |-> "idle"]
    /\ loc = [p \in Procs |-> NoLoc]
    /\ ret = NoRet
    /\ epochIDs = [k \in Keys |-> {}]
    /\ creators = [k \in Keys |-> 0]
    /\ granted = {}
    /\ refs = [n \in Nodes |-> [k \in Keys |-> 0]]
    /\ NoRemote

NoForeign == master = {} /\ slave = {}
Foreign == master = {ForeignMaster} /\ slave = {ForeignSlave}

\* Any configuration, one goroutine, with faults.
InitAny ==
    /\ min \in MinOptions
    /\ max \in MaxOptions
    /\ maxAllocAttempts \in AttemptOptions
    /\ operatorIDManagement \in BOOLEAN
    /\ NoForeign
    /\ callers = {"a1"}
    /\ parallel = 1
    /\ left = [alloc |-> MaxAllocs, release |-> MaxReleases, get |-> MaxGets,
               fault |-> MaxFaults, create |-> MaxCreates, used |-> 0,
               event |-> 0, remove |-> 0, watch |-> 0, stop |-> 0, unreleased |-> 0]

\* The valid range, calls one after the other on node A, no faults; another
\* cluster member may hold an ID.
InitSolo ==
    /\ min = 1
    /\ max = MaxID
    /\ maxAllocAttempts \in 1..MaxAttempts
    /\ operatorIDManagement = FALSE
    /\ NoForeign \/ Foreign
    /\ callers = {"a1"}
    /\ parallel = 1
    /\ left = [alloc |-> SoloAllocs, release |-> SoloReleases, get |-> 0, fault |-> 0,
               create |-> 0, used |-> 0,
               event |-> 0, remove |-> 0, watch |-> 0, stop |-> 0, unreleased |-> 0]

\* The valid range, calls one after the other on both nodes, no faults.
InitSerial ==
    /\ min = 1
    /\ max = MaxID
    /\ maxAllocAttempts = 1
    /\ operatorIDManagement = FALSE
    /\ NoForeign
    /\ callers = {"a1", "b1"}
    /\ parallel = 1
    /\ left = [alloc |-> SerialAllocs, release |-> SerialReleases, get |-> 0, fault |-> 0,
               create |-> 0, used |-> 0,
               event |-> 0, remove |-> 0, watch |-> 0, stop |-> 0, unreleased |-> 0]

\* The valid range, concurrent calls on node A, with faults.
InitRace ==
    /\ min = 1
    /\ max = MaxID
    /\ maxAllocAttempts = 1
    /\ operatorIDManagement = FALSE
    /\ NoForeign
    /\ callers = {"a1", "a2"}
    /\ parallel = RaceParallel
    /\ left = [alloc |-> RaceAllocs, release |-> RaceReleases, get |-> 0,
               fault |-> RaceFaults, create |-> 0, used |-> 0,
               event |-> 0, remove |-> 0, watch |-> 0, stop |-> 0, unreleased |-> 0]

\* The valid range, two concurrent Allocates on node A, with two faults (a
\* loss of the backend's data and a failing backend call).
InitLoss ==
    /\ min = 1
    /\ max = MaxID
    /\ maxAllocAttempts = 1
    /\ operatorIDManagement = FALSE
    /\ NoForeign
    /\ callers = {"a1", "a2"}
    /\ parallel = RaceParallel
    /\ left = [alloc |-> LossAllocs, release |-> 0, get |-> 0,
               fault |-> LossFaults, create |-> 0, used |-> 0,
               event |-> 0, remove |-> 0, watch |-> 0, stop |-> 0, unreleased |-> 0]

\* The valid range, concurrent Allocates on the two nodes, with a fault.
InitCross ==
    /\ min = 1
    /\ max = MaxID
    /\ maxAllocAttempts = 1
    /\ operatorIDManagement = FALSE
    /\ NoForeign
    /\ callers = {"a1", "b1"}
    /\ parallel = RaceParallel
    /\ left = [alloc |-> CrossAllocs, release |-> 0, get |-> 0,
               fault |-> CrossFaults, create |-> 0, used |-> 0,
               event |-> 0, remove |-> 0, watch |-> 0, stop |-> 0, unreleased |-> 0]

Init ==
    /\ InitAny \/ InitSolo \/ InitSerial \/ InitRace \/ InitLoss \/ InitCross
    /\ prefixMask = NoMask
    /\ sync = NoSync
    /\ gc = NoGC
    /\ Constructed

\* A key that node B holds from the start.
OtherNodeKey ==
    /\ master = {[id |-> 1, key |-> "k1"]}
    /\ slave = {[node |-> "B", key |-> "k1", id |-> 1]}

\* The valid range, node A with remote caches to watch; the backend is empty
\* or has the key of node B.
RemoteInit ==
    /\ min = 1
    /\ max = MaxID
    /\ maxAllocAttempts = 1
    /\ operatorIDManagement = FALSE
    /\ NoForeign \/ OtherNodeKey
    /\ callers = {"a1"}
    /\ parallel = 1
    /\ \/ left = [alloc |-> 0, release |-> 0, get |-> 0, fault |-> 0, create |-> 0,
                  used |-> 0, event |-> RemoteEvents, remove |-> RemoteRemoves,
                  watch |-> RemoteWatches, stop |-> RemoteStops,
                  unreleased |-> 0]
       \/ left = [alloc |-> 0, release |-> 0, get |-> RemoteGets, fault |-> RemoteFaults,
                  create |-> 0, used |-> 0, event |-> LookupEvents, remove |-> 0,
                  watch |-> LookupWatches, stop |-> 0, unreleased |-> 0]
    /\ prefixMask = NoMask
    /\ sync = NoSync
    /\ gc = NoGC
    /\ Constructed

\* ------------------------------------------------------- returning a call
RetOf(p, l, id, isNew, firstUse, lastUse, err, fast) ==
    [proc |-> p, op |-> l.op, key |-> l.key, id |-> id, isNew |-> isNew, firstUse |-> firstUse,
     lastUse |-> lastUse, err |-> err, calls |-> l.calls, ctx0 |-> l.ctx0,
     scen |-> l.scen, cached0 |-> l.cached0, held0 |-> l.held0, refs0 |-> l.refs0,
     fast |-> fast, tries |-> l.tries, lastErr |-> l.err, ctx |-> l.ctx,
     from |-> "none"]

\* Other goroutines' calls in progress are no longer alone on the system.
Disturb(l, p) ==
    [q \in Procs |-> IF q = p THEN l[q] ELSE [l[q] EXCEPT !.scen = "none"]]

\* The locals of p's call become l.
SetLoc(p, l) == loc' = [Disturb(loc, p) EXCEPT ![p] = l]

\* No call returns in this step.
Quiet == ret' = NoRet

\* The call of p returns r.
Return(p, r) ==
    /\ pc' = [pc EXCEPT ![p] = "idle"]
    /\ SetLoc(p, NoLoc)
    /\ ret' = r

\* History of a successful non-operator Allocate: the ID is held on the node,
\* and it is an ID returned during the life of the key's master key when the
\* key has one.
Grant(p, k, id) ==
    /\ granted' = granted \cup {[node |-> NodeOf(p), key |-> k, id |-> id]}
    /\ refs' = [refs EXCEPT ![NodeOf(p)][k] = @ + 1]
    /\ epochIDs' = IF \E m \in master : m.key = k
                   THEN [epochIDs EXCEPT ![k] = @ \cup {id}]
                   ELSE epochIDs

\* History of a successful Release: one Allocate fewer is outstanding, and the
\* ID is no longer held on the node once none is.
Ungrant(n, k) ==
    /\ refs' = [refs EXCEPT ![n][k] = IF @ > 0 THEN @ - 1 ELSE 0]
    /\ granted' = IF refs[n][k] <= 1
                  THEN {g \in granted : ~(g.node = n /\ g.key = k)}
                  ELSE granted

\* (for C8) a new ID returned with isNew = false.
NewReturnNotNew(id, firstUse) == [id |-> id, isNew |-> FALSE, firstUse |-> firstUse]

\* The values of Allocate's successful returns: from the local fast path,
\* from lockedAllocate for a key that has an ID, and for a new ID.
FastReturn(val) == [id |-> val, isNew |-> FALSE, firstUse |-> FALSE]
\* (for C36) a lockedAllocate that reports an ID it found as new.
ExistingReturnNew(value, firstUse) == [id |-> value, isNew |-> TRUE, firstUse |-> firstUse]
ExistingReturn(value, firstUse) == [id |-> value, isNew |-> FALSE, firstUse |-> firstUse]
NewReturn(id, firstUse) == [id |-> id, isNew |-> TRUE, firstUse |-> firstUse]

\* Allocate returns (r.id, r.isNew, r.firstUse, nil); a return with isNew =
\* true of a master key that exists is counted for the key.
AllocReturnOK(p, l, r, fast) ==
    /\ Return(p, RetOf(p, l, r.id, r.isNew, r.firstUse, FALSE, "nil", fast))
    /\ Grant(p, l.key, r.id)
    /\ creators' = IF r.isNew /\ [id |-> r.id, key |-> l.key] \in master
                   THEN [creators EXCEPT ![l.key] = @ + 1]
                   ELSE creators

\* A call of p other than through AllocReturnOK leaves the history alone.
ReturnPlain(p, r) ==
    /\ Return(p, r)
    /\ UNCHANGED <<epochIDs, creators, granted, refs>>

\* ---------------------------------------------------------- environment
MasterIDs == {m.id : m \in master}

\* What the watch does to the pool: an ID with a master key is in use, and
\* the ID of a deleted master key is available again.
PoolSync(pool) ==
    [i \in DOMAIN pool |-> IF i \in MasterIDs THEN "used"
                           ELSE IF pool[i] = "used" THEN "avail" ELSE pool[i]]

\* The node's cache and pool agree with the backend.
InSync(n) ==
    /\ \A k \in Keys : mainCache[n][k] \in BackendGet(k)
    /\ idPool[n] = PoolSync(idPool[n])

\* The cache and the pool after the events the watch has not delivered yet.
Delivered(n) ==
    /\ \E snap \in [Keys -> 0..MaxID] :
         /\ \A k \in Keys : snap[k] \in BackendGet(k)
         /\ mainCache' = [mainCache EXCEPT ![n] = snap]
    /\ idPool' = [idPool EXCEPT ![n] = PoolSync(@)]

\* The main cache's first full list completes: initialListDone is closed.
ListDone(n) ==
    /\ alloc[n] = "ready"
    /\ ~initialListDone[n]
    /\ initialListDone' = [initialListDone EXCEPT ![n] = TRUE]
    /\ Delivered(n)
    /\ loc' = Disturb(loc, "none")
    /\ Quiet
    /\ UNCHANGED <<cfgVars, sync, remoteVars, alloc, localKeys, slaveKeysMutex, backendVars, pc, histVars>>

\* The watch of the node delivers the upserts and deletes of master keys that
\* it has not delivered yet.
WatchEvent(n) ==
    /\ initialListDone[n]
    /\ ~InSync(n)
    /\ Delivered(n)
    /\ loc' = Disturb(loc, "none")
    /\ Quiet
    /\ UNCHANGED <<cfgVars, sync, remoteVars, alloc, initialListDone, localKeys, slaveKeysMutex,
                   backendVars, pc, histVars>>

\* RunGC: the backend reaps, under the key's lock, a master key that no
\* secondary key references.
RunGC ==
    /\ NewAllocatorForGC(min, max) = "gc"
    /\ \E m \in master :
         /\ ~ \E s \in slave : s.key = m.key /\ s.id = m.id
         /\ m.key \in Keys => kvLock[m.key] = "free"
         /\ master' = master \ {m}
         /\ epochIDs' = [epochIDs EXCEPT ![m.key] = {}]
         /\ creators' = [creators EXCEPT ![m.key] = 0]
    /\ loc' = Disturb(loc, "none")
    /\ Quiet
    /\ UNCHANGED <<cfgVars, sync, remoteVars, nodeVars, slave, kvLock, pc, granted, refs, left>>

\* DeleteAllKeys: the backend loses every master and secondary key.
DeleteAllKeys ==
    /\ left.fault > 0
    /\ master # {}
    /\ master' = {}
    /\ slave' = {}
    /\ epochIDs' = [k \in Keys |-> {}]
    /\ creators' = [k \in Keys |-> 0]
    /\ left' = [left EXCEPT !.fault = @ - 1, !.used = @ + 1]
    /\ loc' = Disturb(loc, "none")
    /\ Quiet
    /\ UNCHANGED <<cfgVars, sync, remoteVars, nodeVars, kvLock, pc, granted, refs>>

\* With operatorIDManagement the cluster's manager creates the master keys.
OperatorCreate(k, id) ==
    /\ operatorIDManagement
    /\ ~ RangeInvalid(min, max)
    /\ id \in min..max
    /\ ~ \E m \in master : m.id = id \/ m.key = k
    /\ left.create > 0
    /\ left' = [left EXCEPT !.create = @ - 1]
    /\ master' = master \cup {[id |-> id, key |-> k]}
    /\ loc' = Disturb(loc, "none")
    /\ Quiet
    /\ UNCHANGED <<cfgVars, sync, remoteVars, nodeVars, slave, kvLock, pc, epochIDs, creators, granted, refs>>

\* ---------------------------------------------------------------- Allocate
\* (for C13) a wait for the initial list that is over at once.
PastAnyList(n) == TRUE

\* The select on initialListDone that Allocate and Release start with: the
\* case of the closed channel can be taken.
PastInitialList(n) == initialListDone[n]

Call(l, c) == [l EXCEPT !.calls = @ \cup {c}]

\* (for C20) a loop that never finds the context canceled.
CtxNeverDone(ctx) == FALSE

\* The select on ctx.Done() after a failed attempt: the context is canceled.
CtxDone(ctx) == ctx

\* A failed attempt of Allocate's loop, with error e: when the context is
\* found canceled the cancellation error is returned, else the backoff wait
\* begins.
AllocFail(p, l, e) ==
    LET f == [l EXCEPT !.err = e] IN
    IF CtxDone(f.ctx)
    THEN ReturnPlain(p, RetOf(p, f, NoID, FALSE, FALSE, FALSE, "keyCancelled", FALSE))
    ELSE /\ pc' = [pc EXCEPT ![p] = "AllocLoop"]
         /\ SetLoc(p, [f EXCEPT !.attempt = @ + 1, !.value = NoID, !.id = NoID,
                                 !.unmaskedID = NoID, !.firstUse = FALSE,
                                 !.reserved = FALSE])
         /\ Quiet /\ UNCHANGED <<epochIDs, creators, granted, refs>>

\* (for C24) a fast path that leaves the main cache alone.
FastPathNoInsert(c, k, val) == c

\* Allocate's fast path: a.mainCache.insert(key, val) before the return.
FastPathInsert(c, k, val) == cacheInsert(c, k, val)

\* (for C25) a successful lockedAllocate after which nothing is inserted.
AllocatedNoInsert(c, k, value) == c

\* Allocate after a successful lockedAllocate: a.mainCache.insert(key, value)
\* before the return.
AllocatedInsert(c, k, value) == cacheInsert(c, k, value)

\* (for C4) an Allocate that never takes the local fast path.
FastPathNever(lk, k) == FALSE

\* Allocate's check of the local keys: use(key) found the key.
FastPathHit(lk, k) == lookupKey(lk, k) # NoID

\* One iteration's start: the local fast path, else on to lockedAllocate.
TryLocal(p, l) ==
    LET n == NodeOf(p)
        k == l.key
    IN IF FastPathHit(localKeys[n], k)
       THEN /\ localKeys' = [localKeys EXCEPT ![n] = useKeys(@, k)]
            /\ mainCache' = [mainCache EXCEPT ![n] =
                               FastPathInsert(@, k, lookupKey(localKeys[n], k))]
            /\ AllocReturnOK(p, l, FastReturn(lookupKey(localKeys[n], k)), TRUE)
       ELSE /\ pc' = [pc EXCEPT ![p] = "Lock"]
            /\ SetLoc(p, [l EXCEPT !.tries = @ + 1])
            /\ Quiet /\ UNCHANGED <<localKeys, mainCache, epochIDs, creators, granted, refs>>

\* What an Allocate that runs alone finds when it starts: "held" (the node
\* holds the key from an earlier Allocate), "fresh" (the key is unknown to the
\* backend, the cache and the local table, the node's view of the backend is
\* current and an ID is free), "exhausted" (the same, but no ID is free).
Scenario(p, k, c) ==
    LET n == NodeOf(p) IN
    IF c \/ operatorIDManagement \/ maxAllocAttempts < 1 THEN "none"
    ELSE IF \E q \in Procs \ {p} : pc[q] # "idle" THEN "none"
    ELSE IF lookupKey(localKeys[n], k) # NoID
         THEN IF refs[n][k] > 0 THEN "held" ELSE "none"
    ELSE IF /\ BackendGet(k) = {NoID}
            /\ ~ \E s \in slave : s.key = k
            /\ mainCache[n][k] = NoID
            /\ InSync(n)
         THEN IF Available(idPool[n]) # {} THEN "fresh" ELSE "exhausted"
         ELSE "none"

\* Allocate is called with key k; c: its context is already canceled.
AllocateCall(p, k, c) ==
    LET n == NodeOf(p)
        l == [NoLoc EXCEPT !.op = "Allocate", !.key = k, !.ctx = c, !.ctx0 = c,
                           !.scen = Scenario(p, k, c), !.cached0 = mainCache[n][k],
                           !.held0 = lookupKey(localKeys[n], k)]
    IN /\ pc[p] = "idle"
       /\ alloc[n] = "ready"
       /\ p \in callers
       /\ left.alloc > 0
       /\ Cardinality(InProgress) < parallel
       /\ c => left.fault > 0
       /\ left' = [left EXCEPT !.alloc = @ - 1, !.fault = IF c THEN @ - 1 ELSE @,
                                !.used = IF c THEN @ + 1 ELSE @]
       /\ UNCHANGED <<cfgVars, sync, remoteVars, alloc, initialListDone, idPool, slaveKeysMutex,
                      backendVars>>
       /\ \/ /\ c
             /\ ReturnPlain(p, RetOf(p, l, NoID, FALSE, FALSE, FALSE, "cancelled", FALSE))
             /\ UNCHANGED <<localKeys, mainCache>>
          \/ /\ PastInitialList(n)
             /\ IF maxAllocAttempts < 1
                THEN /\ ReturnPlain(p, RetOf(p, l, NoID, FALSE, FALSE, FALSE, "nil", FALSE))
                     /\ UNCHANGED <<localKeys, mainCache>>
                ELSE IF operatorIDManagement
                THEN /\ pc' = [pc EXCEPT ![p] = "GetWithRetry"]
                     /\ SetLoc(p, l)
                     /\ Quiet /\ UNCHANGED <<localKeys, mainCache, epochIDs, creators, granted, refs>>
                ELSE TryLocal(p, l)

\* (for C19) a loop that has one attempt more than maxAllocAttempts.
OneMoreAttempt(attempt) == attempt <= maxAllocAttempts

\* Allocate's loop has another iteration to run.
MoreAttempts(attempt) == attempt < maxAllocAttempts

\* boff.Wait(ctx) returns an error: the context was canceled during the wait.
WaitInterrupted(ctx) == ctx

\* The backoff wait that follows a failed attempt returns: with an error, that
\* Allocate returns, when the context was canceled meanwhile; else the loop
\* runs its next iteration, or ends and Allocate returns the error of the
\* last attempt.
AllocLoop(p) ==
    LET l == loc[p] IN
    /\ pc[p] = "AllocLoop"
    /\ UNCHANGED <<cfgVars, sync, remoteVars, alloc, initialListDone, idPool, slaveKeysMutex,
                   backendVars, left>>
    /\ IF WaitInterrupted(l.ctx)
       THEN /\ ReturnPlain(p, RetOf(p, l, NoID, FALSE, FALSE, FALSE, "waitCancelled", FALSE))
            /\ UNCHANGED <<localKeys, mainCache>>
       ELSE IF MoreAttempts(l.attempt)
       THEN TryLocal(p, l)
       ELSE /\ ReturnPlain(p, RetOf(p, l, NoID, FALSE, FALSE, FALSE, l.err, FALSE))
            /\ UNCHANGED <<localKeys, mainCache>>

\* The context of the call in progress of p is canceled.
Cancel(p) ==
    /\ pc[p] # "idle"
    /\ ~loc[p].ctx
    /\ left.fault > 0
    /\ left' = [left EXCEPT !.fault = @ - 1, !.used = @ + 1]
    /\ SetLoc(p, [loc[p] EXCEPT !.ctx = TRUE, !.scen = "none"])
    /\ Quiet
    /\ UNCHANGED <<cfgVars, sync, remoteVars, nodeVars, backendVars, pc, epochIDs, creators, granted, refs>>

\* lockedAllocate: backend.Lock(ctx, key).
Lock(p) ==
    LET l == Call(loc[p], "Lock")
        k == l.key
    IN /\ pc[p] = "Lock"
       /\ UNCHANGED <<cfgVars, sync, remoteVars, nodeVars, master, slave>>
       /\ \/ /\ kvLock[k] = "free"
             /\ kvLock' = [kvLock EXCEPT ![k] = p]
             /\ pc' = [pc EXCEPT ![p] = "GetIfLocked"]
             /\ SetLoc(p, l)
             /\ Quiet /\ UNCHANGED <<epochIDs, creators, granted, refs, left>>
          \/ /\ MayFail(p)
             /\ left' = Faults(p, TRUE)
             /\ AllocFail(p, Faulted(l, TRUE), "lock")
             /\ UNCHANGED kvLock

\* (for C27) an unlock that is given the context of the caller.
UnlockWithCallerContext(ctx) == ctx

\* lockedAllocate's deferred lock.Unlock(context.Background()): whether the
\* context it is given is canceled.
UnlockContextDone(ctx) == FALSE

\* KVLocker.Unlock: the lock is released unless the context is canceled.
UnlockKey(p) ==
    IF UnlockContextDone(loc[p].ctx) THEN kvLock
    ELSE [kvLock EXCEPT ![loc[p].key] = "free"]

\* Allocator.GetIfLocked answers from the main cache when it has the key.
GetIfLockedUsesCache(c, k) == cacheGet(c, k) # NoID

\* lockedAllocate: a.GetIfLocked(ctx, key, lock).
GetIfLocked(p) ==
    LET n == NodeOf(p)
        k == loc[p].key
    IN /\ pc[p] = "GetIfLocked"
       /\ UNCHANGED <<cfgVars, sync, remoteVars, nodeVars, master, slave>>
       /\ IF GetIfLockedUsesCache(mainCache[n], k)
          THEN /\ pc' = [pc EXCEPT ![p] = "Mutex"]
               /\ SetLoc(p, [loc[p] EXCEPT !.value = cacheGet(mainCache[n], k)])
               /\ Quiet /\ UNCHANGED <<kvLock, epochIDs, creators, granted, refs, left>>
          ELSE \/ \E v \in BackendGet(k) :
                    /\ pc' = [pc EXCEPT ![p] = "Mutex"]
                    /\ SetLoc(p, [Call(loc[p], "Get") EXCEPT !.value = v])
                    /\ Quiet /\ UNCHANGED <<kvLock, epochIDs, creators, granted, refs, left>>
               \/ /\ MayFail(p)
                  /\ left' = Faults(p, TRUE)
                  /\ kvLock' = UnlockKey(p)
                  /\ AllocFail(p, Faulted(Call(loc[p], "Get"), TRUE), "get")

\* (for C7) a selection that takes any ID of the range, free or not.
selectAnyID(pool) == DOMAIN pool

\* selectAvailableID: an ID leased from the pool, NoID when it has none.
selectAvailableID(pool) == IF Available(pool) = {} THEN {NoID} ELSE Available(pool)

\* lockedAllocate returns: the deferred unlocks of the backend lock and of
\* slaveKeysMutex (when held).
Unlocked(p) ==
    /\ kvLock' = UnlockKey(p)
    /\ slaveKeysMutex' = [slaveKeysMutex EXCEPT ![NodeOf(p)] =
                            IF @ = p THEN "free" ELSE @]

\* (for C39) a lockedAllocate that does not consult the local keys.
LocalValueNone(lk, k) == NoID

\* lockedAllocate, the backend has no ID for the key: value =
\* a.localKeys.lookupKey(k).
LocalValue(lk, k) == lookupKey(lk, k)

\* lockedAllocate: slaveKeysMutex.Lock(), then the local steps up to the next
\* backend call: the lookup in the local keys when the backend has no ID for
\* the key, the local reservation of the ID the backend has, or the lease and
\* local reservation of a new ID.
LockedLocal(p) ==
    LET n == NodeOf(p)
        l == loc[p]
        k == l.key
        lk == localKeys[n]
    IN /\ pc[p] = "Mutex"
       /\ slaveKeysMutex[n] = "free"
       /\ UNCHANGED <<cfgVars, sync, remoteVars, alloc, initialListDone, mainCache, master, slave, left>>
       /\ \/ /\ l.value = NoID
             /\ LocalValue(lk, k) # NoID
             /\ pc' = [pc EXCEPT ![p] = "UpdateKey"]
             /\ SetLoc(p, [l EXCEPT !.value = LocalValue(lk, k)])
             /\ slaveKeysMutex' = [slaveKeysMutex EXCEPT ![n] = p]
             /\ Quiet /\ UNCHANGED <<localKeys, idPool, kvLock, epochIDs, creators, granted, refs>>
          \/ /\ l.value # NoID
             /\ IF allocateErr(lk, k, l.value)
                THEN /\ Unlocked(p)
                     /\ AllocFail(p, l, "reserve")
                     /\ UNCHANGED <<localKeys, idPool>>
                ELSE /\ localKeys' = [localKeys EXCEPT ![n] = allocateKeys(@, k, l.value)]
                     /\ pc' = [pc EXCEPT ![p] = "AcquireExisting"]
                     /\ SetLoc(p, [l EXCEPT !.firstUse = allocateFirstUse(lk, k),
                                            !.reserved = TRUE])
                     /\ slaveKeysMutex' = [slaveKeysMutex EXCEPT ![n] = p]
                     /\ Quiet /\ UNCHANGED <<idPool, kvLock, epochIDs, creators, granted, refs>>
          \/ /\ l.value = NoID
             /\ LocalValue(lk, k) = NoID
             \* (the key has no local entry and the mutex is held, so the
             \* reservation below neither fails nor finds another ID)
             /\ \E i \in selectAvailableID(idPool[n]) :
                  IF i = NoID
                  THEN /\ Unlocked(p)
                       /\ AllocFail(p, l, "noIDs")
                       /\ UNCHANGED <<localKeys, idPool>>
                  ELSE /\ idPool' = [idPool EXCEPT ![n] = LeaseID(@, i)]
                       /\ localKeys' = [localKeys EXCEPT ![n] =
                                          allocateKeys(@, k, Masked(i))]
                       /\ pc' = [pc EXCEPT ![p] = "GetNoCache"]
                       /\ SetLoc(p, [l EXCEPT !.id = Masked(i), !.unmaskedID = i,
                                              !.reserved = TRUE,
                                              !.firstUse = allocateFirstUse(lk, k)])
                       /\ slaveKeysMutex' = [slaveKeysMutex EXCEPT ![n] = p]
                       /\ Quiet /\ UNCHANGED <<kvLock, epochIDs, creators, granted, refs>>

\* lockedAllocate: re-create the master key of a key that is in local use,
\* backend.UpdateKeyIfLocked(ctx, value, key, true, lock).
UpdateKey(p) ==
    LET n == NodeOf(p)
        l == Call(loc[p], "Update")
        k == l.key
    IN /\ pc[p] = "UpdateKey"
       /\ UNCHANGED <<cfgVars, sync, remoteVars, alloc, initialListDone, localKeys, idPool, mainCache>>
       /\ \/ /\ master' = RecreateMaster(k, l.value)
             /\ slave' = AcquireSlave(n, k, l.value)
             /\ pc' = [pc EXCEPT ![p] = "AcquireExisting"]
             /\ SetLoc(p, l)
             /\ Quiet /\ UNCHANGED <<slaveKeysMutex, kvLock, epochIDs, creators, granted, refs, left>>
          \/ /\ MayFail(p)
             /\ left' = Faults(p, TRUE)
             /\ Unlocked(p)
             /\ AllocFail(p, Faulted(l, TRUE), "update")
             /\ UNCHANGED <<master, slave>>

\* lockedAllocate, the key has an ID: backend.AcquireReference, then verify
\* and return (value, false, firstUse); Allocate inserts in the main cache.
AcquireExisting(p) ==
    LET n == NodeOf(p)
        l == Call(loc[p], "Acquire")
        k == l.key
    IN /\ pc[p] = "AcquireExisting"
       /\ UNCHANGED <<cfgVars, sync, remoteVars, alloc, initialListDone, idPool, master>>
       /\ Unlocked(p)
       /\ \/ /\ CanAcquire(l.value)
             /\ slave' = AcquireSlave(n, k, l.value)
             /\ localKeys' = [localKeys EXCEPT ![n] = verifyKeys(@, k)]
             /\ mainCache' = [mainCache EXCEPT ![n] = AllocatedInsert(@, k, l.value)]
             /\ AllocReturnOK(p, l, ExistingReturn(l.value, l.firstUse), FALSE)
             /\ UNCHANGED left
          \/ /\ ~CanAcquire(l.value) \/ MayFail(p)
             /\ left' = Faults(p, CanAcquire(l.value))
             /\ localKeys' = [localKeys EXCEPT ![n] = releaseKeys(@, k)]
             /\ AllocFail(p, Faulted(l, CanAcquire(l.value)), "acquire")
             /\ UNCHANGED <<slave, mainCache>>

\* (for C31) an unwinding that gives back the local reservation only.
ReleaseKeyOnly(p) ==
    /\ localKeys' = [localKeys EXCEPT ![NodeOf(p)] = releaseKeys(@, loc[p].key)]
    /\ UNCHANGED idPool

\* lockedAllocate's releaseKeyAndID: the local reservation and the leased ID
\* are given back.
ReleaseKeyAndID(p) ==
    LET n == NodeOf(p) IN
    /\ localKeys' = [localKeys EXCEPT ![n] = releaseKeys(@, loc[p].key)]
    /\ idPool' = [idPool EXCEPT ![n] = ReleaseID(@, loc[p].unmaskedID)]

\* lockedAllocate, new ID: a.GetNoCache(ctx, key), the check that nobody
\* allocated the key meanwhile.
GetNoCache(p) ==
    LET l == Call(loc[p], "Get")
        k == l.key
    IN /\ pc[p] = "GetNoCache"
       /\ UNCHANGED <<cfgVars, sync, remoteVars, alloc, initialListDone, mainCache, master, slave>>
       /\ \/ \E v \in BackendGet(k) :
               IF v # NoID
               THEN /\ ReleaseKeyAndID(p)
                    /\ Unlocked(p)
                    /\ AllocFail(p, l, "foundMaster")
                    /\ UNCHANGED left
               ELSE /\ pc' = [pc EXCEPT ![p] = "AllocateID"]
                    /\ SetLoc(p, l)
                    /\ Quiet /\ UNCHANGED <<localKeys, idPool, slaveKeysMutex, kvLock,
                                            epochIDs, creators, granted, refs, left>>
          \/ /\ MayFail(p)
             /\ left' = Faults(p, TRUE)
             /\ ReleaseKeyAndID(p)
             /\ Unlocked(p)
             /\ AllocFail(p, Faulted(l, TRUE), "get")

\* lockedAllocate, new ID: backend.AllocateIDIfLocked, the conditional create
\* of the master key, then idPool.Use.
AllocateID(p) ==
    LET n == NodeOf(p)
        l == Call(loc[p], "Create")
        k == l.key
    IN /\ pc[p] = "AllocateID"
       /\ UNCHANGED <<cfgVars, sync, remoteVars, alloc, initialListDone, mainCache, slave>>
       /\ \/ /\ CanCreate(l.id)
             /\ master' = master \cup {[id |-> l.id, key |-> k]}
             /\ idPool' = [idPool EXCEPT ![n] = UseID(@, l.unmaskedID)]
             /\ pc' = [pc EXCEPT ![p] = "AcquireNew"]
             /\ SetLoc(p, l)
             /\ Quiet /\ UNCHANGED <<localKeys, slaveKeysMutex, kvLock, epochIDs, creators, granted, refs,
                                     left>>
          \/ /\ ~CanCreate(l.id) \/ MayFail(p)
             /\ left' = Faults(p, CanCreate(l.id))
             /\ ReleaseKeyAndID(p)
             /\ Unlocked(p)
             /\ AllocFail(p, Faulted(l, CanCreate(l.id)), "create")
             /\ UNCHANGED master

\* lockedAllocate, new ID: backend.AcquireReference, then verify and return
\* (id, true, firstUse); Allocate inserts in the main cache.
AcquireNew(p) ==
    LET n == NodeOf(p)
        l == Call(loc[p], "Acquire")
        k == l.key
    IN /\ pc[p] = "AcquireNew"
       /\ UNCHANGED <<cfgVars, sync, remoteVars, alloc, initialListDone, master>>
       /\ Unlocked(p)
       /\ \/ /\ CanAcquire(l.id)
             /\ slave' = AcquireSlave(n, k, l.id)
             /\ localKeys' = [localKeys EXCEPT ![n] = verifyKeys(@, k)]
             /\ mainCache' = [mainCache EXCEPT ![n] = AllocatedInsert(@, k, l.id)]
             /\ AllocReturnOK(p, l, NewReturn(l.id, l.firstUse), FALSE)
             /\ UNCHANGED <<idPool, left>>
          \/ /\ ~CanAcquire(l.id) \/ MayFail(p)
             /\ left' = Faults(p, CanAcquire(l.id))
             /\ ReleaseKeyAndID(p)
             /\ AllocFail(p, Faulted(l, CanAcquire(l.id)), "acquire")
             /\ UNCHANGED <<slave, mainCache>>

\* ----------------------------------------------------------------- Release
\* (for C9) a Release that calls Backend.Release every time.
ReleaseAlwaysCallsBackend(lastUse) == TRUE

\* Release calls Backend.Release when the local release was the last use.
ReleaseCallsBackend(lastUse) == lastUse

\* (for C12) a Release that is never skipped.
ReleaseNeverSkipped == FALSE

\* Release returns (false, nil) straight away under operatorIDManagement.
ReleaseSkipped == operatorIDManagement

\* Release is called with key k; c: its context is already canceled.
ReleaseCall(p, k, c) ==
    LET n == NodeOf(p)
        l == [NoLoc EXCEPT !.op = "Release", !.key = k, !.ctx = c, !.ctx0 = c,
                           !.scen = IF \A q \in Procs \ {p} : pc[q] = "idle"
                                    THEN "settled" ELSE "none"]
    IN /\ pc[p] = "idle"
       /\ alloc[n] = "ready"
       /\ p \in callers
       /\ left.release > 0
       /\ Cardinality(InProgress) < parallel
       /\ c => left.fault > 0
       /\ left' = [left EXCEPT !.release = @ - 1, !.fault = IF c THEN @ - 1 ELSE @,
                                !.used = IF c THEN @ + 1 ELSE @]
       /\ UNCHANGED <<cfgVars, sync, remoteVars, nodeVars, backendVars, epochIDs, creators, granted, refs>>
       /\ IF ReleaseSkipped
          THEN Return(p, RetOf(p, l, NoID, FALSE, FALSE, FALSE, "nil", FALSE))
          ELSE \/ /\ c
                  /\ Return(p, RetOf(p, l, NoID, FALSE, FALSE, FALSE, "cancelled", FALSE))
               \/ /\ PastInitialList(n)
                  /\ pc' = [pc EXCEPT ![p] = "ReleaseMutex"]
                  /\ SetLoc(p, l)
                  /\ Quiet

\* Release: slaveKeysMutex.Lock() and localKeys.release(k).
ReleaseLocal(p) ==
    LET n == NodeOf(p)
        l == [loc[p] EXCEPT !.refs0 = refs[n][loc[p].key]]
        k == l.key
        lk == localKeys[n]
        last == releaseLastUse(lk, k)
    IN /\ pc[p] = "ReleaseMutex"
       /\ slaveKeysMutex[n] = "free"
       /\ UNCHANGED <<cfgVars, sync, remoteVars, alloc, initialListDone, idPool, mainCache, backendVars,
                      epochIDs, creators, left>>
       /\ IF releaseErr(lk, k)
          THEN /\ Return(p, RetOf(p, l, NoID, FALSE, FALSE, FALSE, "notFound", FALSE))
               /\ UNCHANGED <<localKeys, slaveKeysMutex, granted, refs>>
          ELSE /\ localKeys' = [localKeys EXCEPT ![n] = releaseKeys(@, k)]
               /\ Ungrant(n, k)
               /\ IF ReleaseCallsBackend(last)
                  THEN /\ pc' = [pc EXCEPT ![p] = "BackendRelease"]
                       /\ SetLoc(p, [l EXCEPT !.lastUse = last, !.value = lookupKey(lk, k)])
                       /\ slaveKeysMutex' = [slaveKeysMutex EXCEPT ![n] = p]
                       /\ Quiet
                  ELSE /\ Return(p, RetOf(p, l, lookupKey(lk, k), FALSE, FALSE, last, "nil",
                                          FALSE))
                       /\ UNCHANGED slaveKeysMutex

\* Release: backend.Release(ctx, id, key); its error is not looked at.
BackendRelease(p) ==
    LET n == NodeOf(p)
        l == Call(loc[p], "Release")
    IN /\ pc[p] = "BackendRelease"
       /\ UNCHANGED <<cfgVars, sync, remoteVars, alloc, initialListDone, localKeys, idPool, mainCache,
                      master, kvLock, epochIDs, creators, granted, refs>>
       /\ slaveKeysMutex' = [slaveKeysMutex EXCEPT ![n] = "free"]
       /\ \/ /\ slave' = ReleaseSlave(n, l.key)
             /\ Return(p, RetOf(p, l, l.value, FALSE, FALSE, l.lastUse, "nil", FALSE))
             /\ UNCHANGED left
          \/ /\ MayFail(p)
             /\ left' = [Faults(p, TRUE) EXCEPT !.unreleased = @ + 1]
             /\ Return(p, RetOf(p, [l EXCEPT !.err = "release"], l.value, FALSE, FALSE,
                                l.lastUse, "nil", FALSE))
             /\ UNCHANGED slave

\* --------------------------------------------------------------------- Get
\* (for C10) a Get that never answers from the main cache.
GetNeverUsesCache(c, k) == FALSE

\* Allocator.Get answers from the main cache when it has the key.
GetUsesCache(c, k) == cacheGet(c, k) # NoID

\* Get is called with key k.
GetCall(p, k) ==
    LET n == NodeOf(p)
        l == [NoLoc EXCEPT !.op = "Get", !.key = k, !.cached0 = mainCache[n][k]]
    IN /\ pc[p] = "idle"
       /\ alloc[n] = "ready"
       /\ p \in callers
       /\ left.get > 0
       /\ Cardinality(InProgress) < parallel
       /\ left' = [left EXCEPT !.get = @ - 1]
       /\ UNCHANGED <<cfgVars, sync, remoteVars, nodeVars, backendVars, epochIDs, creators, granted, refs>>
       /\ IF GetUsesCache(mainCache[n], k)
          THEN Return(p, RetOf(p, l, cacheGet(mainCache[n], k), FALSE, FALSE, FALSE, "nil",
                               TRUE))
          ELSE /\ pc' = [pc EXCEPT ![p] = "GetNoCacheCall"]
               /\ SetLoc(p, l)
               /\ Quiet

\* Get: a.GetNoCache(ctx, key), that is backend.Get.
GetBackend(p) ==
    LET l == Call(loc[p], "Get") IN
    /\ pc[p] = "GetNoCacheCall"
    /\ UNCHANGED <<cfgVars, sync, remoteVars, nodeVars, backendVars, epochIDs, creators, granted, refs>>
    /\ \/ /\ \E v \in BackendGet(l.key) :
               Return(p, RetOf(p, l, v, FALSE, FALSE, FALSE, "nil", FALSE))
          /\ UNCHANGED left
       \/ /\ MayFail(p)
          /\ left' = Faults(p, TRUE)
          /\ Return(p, RetOf(p, l, NoID, FALSE, FALSE, FALSE, "get", FALSE))

\* ------------------------------------------------------------ GetWithRetry
\* A failed attempt of GetWithRetry's loop, with error e: when the context is
\* found canceled the cancellation error is returned, else the backoff wait
\* begins.
RetryFail(p, l, e) ==
    LET f == [l EXCEPT !.err = e] IN
    IF CtxDone(f.ctx)
    THEN Return(p, RetOf(p, f, NoID, FALSE, FALSE, FALSE, "keyCancelled", FALSE))
    ELSE /\ pc' = [pc EXCEPT ![p] = "RetryWait"]
         /\ SetLoc(p, [f EXCEPT !.attempt = @ + 1])
         /\ Quiet

\* GetWithRetry's loop has another iteration to run.
MoreRetries(attempt) == attempt < maxAllocAttempts

\* GetWithRetry's backoff wait returns: with an error, that is returned as a
\* timeout, when the context was canceled meanwhile; else the loop runs its
\* next iteration, or ends and the error of the last attempt is returned.
RetryWait(p) ==
    LET l == loc[p] IN
    /\ pc[p] = "RetryWait"
    /\ UNCHANGED <<cfgVars, sync, remoteVars, nodeVars, backendVars, epochIDs, creators, granted, refs, left>>
    /\ IF WaitInterrupted(l.ctx)
       THEN Return(p, RetOf(p, l, NoID, FALSE, FALSE, FALSE, "waitTimeout", FALSE))
       ELSE IF MoreRetries(l.attempt)
       THEN /\ pc' = [pc EXCEPT ![p] = "GetWithRetry"]
            /\ SetLoc(p, l)
            /\ Quiet
       ELSE Return(p, RetOf(p, l, NoID, FALSE, FALSE, FALSE, l.err, FALSE))

\* Allocate under operatorIDManagement: one attempt of GetWithRetry, a Get
\* that must find an ID.
GetWithRetry(p) ==
    LET n == NodeOf(p)
        l == [loc[p] EXCEPT !.tries = @ + 1]
        k == l.key
    IN /\ pc[p] = "GetWithRetry"
       /\ UNCHANGED <<cfgVars, sync, remoteVars, nodeVars, backendVars, epochIDs, creators, granted, refs>>
       /\ IF GetUsesCache(mainCache[n], k)
          THEN /\ Return(p, RetOf(p, l, cacheGet(mainCache[n], k), FALSE, FALSE, FALSE,
                                  "nil", TRUE))
               /\ UNCHANGED left
          ELSE \/ /\ \E v \in BackendGet(k) :
                       IF v # NoID
                       THEN Return(p, RetOf(p, Call(l, "Get"), v, FALSE, FALSE, FALSE,
                                            "nil", FALSE))
                       ELSE RetryFail(p, Call(l, "Get"), "notFound")
                  /\ UNCHANGED left
               \/ /\ MayFail(p)
                  /\ left' = Faults(p, TRUE)
                  /\ RetryFail(p, Call(l, "Get"), "get")


\* ------------------------------------------------------------ remote caches
mainVars == <<cfgVars, sync, nodeVars, backendVars, procVars, histVars>>

\* The IDs that the cache has an entry for (nextCache).
rcIDs(c) == {i \in DOMAIN c : c[i] # None}
\* cache.get of a remote cache: the ID of the key, NoID when it has none.
rcGet(c, k) == IF \E i \in DOMAIN c : c[i] = k THEN {i \in DOMAIN c : c[i] = k} ELSE {NoID}
\* cache.getByID of a remote cache: the key of the ID, nil when it has none.
rcGetByID(c, id) == IF id \in DOMAIN c THEN c[id] ELSE None
\* cache.drainIf: the entries that are stale are removed (a delete event is
\* emitted for each of them).
drainIf(c, stale) == [i \in DOMAIN c |-> IF i \in stale THEN None ELSE c[i]]

\* No drain in this step.
NoDrain == events' = NoEvents
\* The drain of cache rc by operation op emits delete events for ids.
Drain(op, rc, ids) ==
    /\ events' = [by |-> op, cache |-> rc, ids |-> ids]
    /\ rcCache' = [rcCache EXCEPT ![rc] = drainIf(@, ids)]

\* The connections to the remote cluster of one name are made in this order.
Earlier(o, rc) == o = "c1" /\ rc = "c2"

\* NewRemoteCache and the start of its Watch: rc.allocator.start(); the Watch
\* is then on its way to the select, which it evaluates in a later step.
WatchStart(rc) ==
    /\ alloc["A"] = "ready"
    /\ rcPc[rc] = "new"
    /\ \A o \in RCs : Earlier(o, rc) => rcPc[o] # "new"
    /\ left.watch > 0
    /\ left' = [left EXCEPT !.watch = @ - 1]
    /\ rcPc' = [rcPc EXCEPT ![rc] = "select"]
    /\ NoDrain
    /\ UNCHANGED <<cfgVars, sync, nodeVars, backendVars, procVars, epochIDs, creators, granted, refs,
                   remoteCaches, rcCache, rcListDone, rcCtx, canceledFirst, rcClosed, rcOld, rm>>

\* The running cache of a remote allocator receives an upsert (v a key) or a
\* delete (v = None) for an ID.
RemoteEvent(rc, id, v) ==
    /\ rcPc[rc] \notin {"new"}
    /\ ~rcClosed[rc]
    /\ left.event > 0
    /\ rcCache[rc][id] # v
    /\ left' = [left EXCEPT !.event = @ - 1]
    /\ rcCache' = [rcCache EXCEPT ![rc][id] = v]
    /\ NoDrain
    /\ UNCHANGED <<cfgVars, sync, nodeVars, backendVars, procVars, epochIDs, creators, granted, refs,
                   remoteCaches, rcListDone, rcCtx, canceledFirst, rcClosed, rcPc, rcOld, rm>>

\* The first full list of the remote cache completes: listDone is closed.
RemoteListDone(rc) ==
    /\ rcPc[rc] \notin {"new"}
    /\ ~rcClosed[rc]
    /\ ~rcListDone[rc]
    /\ rcListDone' = [rcListDone EXCEPT ![rc] = TRUE]
    /\ NoDrain
    /\ UNCHANGED <<mainVars, remoteCaches, rcCache, rcCtx, canceledFirst, rcClosed, rcPc, rcOld, rm>>

\* The context given to the Watch of rc is canceled.
CancelWatch(rc) ==
    /\ rcPc[rc] \in {"select", "drainOld", "running"}
    /\ ~rcCtx[rc]
    /\ left.stop > 0
    /\ left' = [left EXCEPT !.stop = @ - 1]
    /\ rcCtx' = [rcCtx EXCEPT ![rc] = TRUE]
    /\ canceledFirst' = IF rcListDone[rc] THEN canceledFirst ELSE canceledFirst \cup {rc}
    /\ NoDrain
    /\ UNCHANGED <<cfgVars, sync, nodeVars, backendVars, procVars, epochIDs, creators, granted, refs,
                   remoteCaches, rcCache, rcListDone, rcClosed, rcPc, rcOld, rm>>

\* watchRemoteKVStore, the case <-ctx.Done() of the select: rc.close(), and
\* the registration of the name is read under remoteCachesMutex.
WatchCanceled(rc) ==
    /\ rcPc[rc] = "select"
    /\ rcCtx[rc]
    /\ rcClosed' = [rcClosed EXCEPT ![rc] = TRUE]
    /\ rcOld' = [rcOld EXCEPT ![rc] = remoteCaches[NameOf(rc)]]
    /\ rcPc' = [rcPc EXCEPT ![rc] = "drainCanceled"]
    /\ canceledFirst' = canceledFirst \ {rc}
    /\ NoDrain
    /\ UNCHANGED <<mainVars, remoteCaches, rcCache, rcListDone, rcCtx, rm>>

\* watchRemoteKVStore, the predicate given to drainIf after a cancellation:
\* the ID is not in the cache registered for the name, if any.
StaleInCanceled(old, id) == old = None \/ rcCache[old][id] = None

\* watchRemoteKVStore after a cancellation: rc.cache.drainIf, then return.
DrainCanceled(rc) ==
    /\ rcPc[rc] = "drainCanceled"
    /\ Drain("WatchCanceled", rc, {i \in rcIDs(rcCache[rc]) : StaleInCanceled(rcOld[rc], i)})
    /\ rcPc' = [rcPc EXCEPT ![rc] = "canceled"]
    /\ UNCHANGED <<mainVars, remoteCaches, rcListDone, rcCtx, canceledFirst, rcClosed, rcOld, rm>>

\* (for C40) a select whose listDone case is ready at once.
ListDoneAlways(rc) == TRUE

\* watchRemoteKVStore, the select: the case <-rc.cache.listDone is ready.
ListDoneReady(rc) == rcListDone[rc]

\* watchRemoteKVStore, the case <-rc.cache.listDone of the select: under
\* remoteCachesMutex the registration of the name is read and replaced by rc.
WatchSynced(rc) ==
    /\ rcPc[rc] = "select"
    /\ ListDoneReady(rc)
    /\ rcOld' = [rcOld EXCEPT ![rc] = remoteCaches[NameOf(rc)]]
    /\ remoteCaches' = [remoteCaches EXCEPT ![NameOf(rc)] = rc]
    /\ rcPc' = [rcPc EXCEPT ![rc] = IF remoteCaches[NameOf(rc)] # None
                                    THEN "drainOld" ELSE "running"]
    /\ canceledFirst' = canceledFirst \ {rc}
    /\ NoDrain
    /\ UNCHANGED <<mainVars, rcCache, rcListDone, rcCtx, rcClosed, rm>>

\* (for C16) every entry of the replaced cache is stale.
AllStaleInOld(rc, id) == TRUE

\* watchRemoteKVStore, the predicate given to drainIf after a reconnection:
\* the ID is not in the new cache.
StaleInOld(rc, id) == rcCache[rc][id] = None

\* watchRemoteKVStore after a reconnection: old.cache.drainIf, with the new
\* cache read-locked; then onSync, and the Watch waits for ctx.Done().
DrainOld(rc) ==
    /\ rcPc[rc] = "drainOld"
    /\ Drain("WatchSynced", rcOld[rc], {i \in rcIDs(rcCache[rcOld[rc]]) : StaleInOld(rc, i)})
    /\ rcPc' = [rcPc EXCEPT ![rc] = "running"]
    /\ UNCHANGED <<mainVars, remoteCaches, rcListDone, rcCtx, canceledFirst, rcClosed, rcOld, rm>>

\* watchRemoteKVStore, <-ctx.Done() after the registration: rc.close().
WatchStopped(rc) ==
    /\ rcPc[rc] = "running"
    /\ rcCtx[rc]
    /\ rcClosed' = [rcClosed EXCEPT ![rc] = TRUE]
    /\ rcPc' = [rcPc EXCEPT ![rc] = "stopped"]
    /\ NoDrain
    /\ UNCHANGED <<mainVars, remoteCaches, rcCache, rcListDone, rcCtx, canceledFirst, rcOld, rm>>

\* RemoveRemoteKVStore(name): under remoteCachesMutex the registration of the
\* name is read and deleted; without a registration the call returns.
RemoveRemoteKVStore(name) ==
    /\ alloc["A"] = "ready"
    /\ rm.pc = "idle"
    /\ left.remove > 0
    /\ left' = [left EXCEPT !.remove = @ - 1]
    /\ remoteCaches' = [remoteCaches EXCEPT ![name] = None]
    /\ rm' = [pc |-> IF remoteCaches[name] # None THEN "drain" ELSE "idle",
              name |-> name, old |-> remoteCaches[name],
              before |-> {rc \in RCs : NameOf(rc) = name /\ rcPc[rc] # "new"}]
    /\ NoDrain
    /\ UNCHANGED <<cfgVars, sync, nodeVars, backendVars, procVars, epochIDs, creators, granted, refs,
                   rcCache, rcListDone, rcCtx, canceledFirst, rcClosed, rcPc, rcOld>>

\* (for C18) a removal that drains nothing.
DrainedOfNone(c) == {}

\* cache.drain as RemoveRemoteKVStore calls it: every entry of the cache.
DrainedOfRemoved(c) == rcIDs(c)

\* RemoveRemoteKVStore: old.cache.drain(), then return.
RemoveDrain ==
    /\ rm.pc = "drain"
    /\ Drain("RemoveRemoteKVStore", rm.old, DrainedOfRemoved(rcCache[rm.old]))
    /\ rm' = [rm EXCEPT !.pc = "idle"]
    /\ UNCHANGED <<mainVars, remoteCaches, rcListDone, rcCtx, canceledFirst, rcClosed, rcPc, rcOld>>

\* ------------------------------------- lookups that include remote caches
\* The remote caches that are registered.
Registered == {remoteCaches[nm] : nm \in RemoteNames} \ {None}

\* The return of a lookup: v from the place it was found in.
Found(p, l, id, key, err, from) ==
    ReturnPlain(p, [RetOf(p, l, id, FALSE, FALSE, FALSE, err, FALSE)
                    EXCEPT !.key = key, !.from = from])

\* (for C15) a lookup that never answers from the main cache.
MainCacheNeverHas(c, k) == FALSE

\* GetIncludeRemoteCaches checks the main cache first.
MainCacheHas(c, k) == cacheGet(c, k) # NoID

\* GetIncludeRemoteCaches is called with key k.
GetIncludeRemoteCaches(p, k) ==
    LET n == NodeOf(p)
        l == [NoLoc EXCEPT !.op = "GetIncludeRemoteCaches", !.key = k]
    IN /\ pc[p] = "idle"
       /\ alloc[n] = "ready"
       /\ p \in callers
       /\ left.get > 0
       /\ Cardinality(InProgress) < parallel
       /\ left' = [left EXCEPT !.get = @ - 1]
       /\ NoDrain
       /\ UNCHANGED <<cfgVars, sync, nodeVars, backendVars, remoteCaches, rcCache, rcListDone,
                      rcCtx, canceledFirst, rcClosed, rcPc, rcOld, rm>>
       /\ IF MainCacheHas(mainCache[n], k)
          THEN Found(p, l, cacheGet(mainCache[n], k), k, "nil", "main")
          ELSE /\ pc' = [pc EXCEPT ![p] = "RemoteCaches"]
               /\ SetLoc(p, l)
               /\ Quiet
               /\ UNCHANGED <<epochIDs, creators, granted, refs>>

\* GetByIDIncludeRemoteCaches checks the main cache first.
MainCacheHasID(c, id) == cacheGetByID(c, id) # {}

\* GetByIDIncludeRemoteCaches is called with an ID; the key it returns is
\* None for nil.
GetByIDIncludeRemoteCaches(p, id) ==
    LET n == NodeOf(p)
        l == [NoLoc EXCEPT !.op = "GetByIDIncludeRemoteCaches", !.id = id]
    IN /\ pc[p] = "idle"
       /\ alloc[n] = "ready"
       /\ p \in callers
       /\ left.get > 0
       /\ Cardinality(InProgress) < parallel
       /\ left' = [left EXCEPT !.get = @ - 1]
       /\ NoDrain
       /\ UNCHANGED <<cfgVars, sync, nodeVars, backendVars, remoteCaches, rcCache, rcListDone,
                      rcCtx, canceledFirst, rcClosed, rcPc, rcOld, rm>>
       /\ IF MainCacheHasID(mainCache[n], id)
          THEN \E k \in cacheGetByID(mainCache[n], id) : Found(p, l, id, k, "nil", "main")
          ELSE /\ pc' = [pc EXCEPT ![p] = "RemoteCaches"]
               /\ SetLoc(p, l)
               /\ Quiet
               /\ UNCHANGED <<epochIDs, creators, granted, refs>>

\* The remote caches that answer the lookup of the call l.
Answering(l) ==
    IF l.op = "GetIncludeRemoteCaches"
    THEN {rc \in Registered : rcGet(rcCache[rc], l.key) # {NoID}}
    ELSE {rc \in Registered : rcGetByID(rcCache[rc], l.id) # None}

\* Both lookups: the loop over a.remoteCaches under remoteCachesMutex.RLock;
\* the first cache of the iteration that has the entry answers.
RemoteCaches(p) ==
    LET l == loc[p] IN
    /\ pc[p] = "RemoteCaches"
    /\ NoDrain
    /\ UNCHANGED <<cfgVars, sync, nodeVars, backendVars, left, remoteCaches, rcCache, rcListDone,
                   rcCtx, canceledFirst, rcClosed, rcPc, rcOld, rm>>
    /\ IF Answering(l) # {}
       THEN \E rc \in Answering(l) :
               IF l.op = "GetIncludeRemoteCaches"
               THEN \E v \in rcGet(rcCache[rc], l.key) : Found(p, l, v, l.key, "nil", "remote")
               ELSE Found(p, l, l.id, rcGetByID(rcCache[rc], l.id), "nil", "remote")
       ELSE /\ pc' = [pc EXCEPT ![p] = "MainBackend"]
            /\ SetLoc(p, l)
            /\ Quiet
            /\ UNCHANGED <<epochIDs, creators, granted, refs>>

\* Both lookups: the main backend is asked, a.backend.Get or a.backend.GetByID.
MainBackend(p) ==
    LET l == Call(loc[p], IF loc[p].op = "GetIncludeRemoteCaches" THEN "Get" ELSE "GetByID") IN
    /\ pc[p] = "MainBackend"
    /\ NoDrain
    /\ UNCHANGED <<cfgVars, sync, nodeVars, backendVars, remoteCaches, rcCache, rcListDone,
                   rcCtx, canceledFirst, rcClosed, rcPc, rcOld, rm>>
    /\ \/ /\ UNCHANGED left
          /\ IF l.op = "GetIncludeRemoteCaches"
             THEN \E v \in BackendGet(l.key) : Found(p, l, v, l.key, "nil", "backend")
             ELSE \E k \in IF BackendGetByID(l.id) = {} THEN {None} ELSE BackendGetByID(l.id) :
                     Found(p, l, l.id, k, "nil", "backend")
       \/ /\ MayFail(p)
          /\ left' = Faults(p, TRUE)
          /\ Found(p, l, IF l.op = "GetIncludeRemoteCaches" THEN NoID ELSE l.id,
                   IF l.op = "GetIncludeRemoteCaches" THEN l.key ELSE None, "get", "backend")

\* ------------------------------------------------------------------- Next
\* ------------------------------------------------------------ syncLocalKeys
\* The node whose local-key sync goroutine is followed.
SyncNode == "A"

\* localKeys.getVerifiedIDs: the verified entries, as key -> ID.
getVerifiedIDs(lk) == [k \in Keys |-> IF lk[k].verified THEN lk[k].val ELSE NoID]

\* The goroutine between two syncLocalKey calls: the loop over the snapshot
\* goes on while the snapshot has entries left, then the round is over.
SyncReturn(s) ==
    [s EXCEPT !.pc = IF \A k \in Keys : s.ids[k] = NoID THEN "idle" ELSE "loop"]

\* What the sync goroutine leaves alone in every step.
SyncQuiet ==
    /\ loc' = Disturb(loc, "none")
    /\ Quiet
    /\ UNCHANGED <<cfgVars, remoteVars, alloc, initialListDone, localKeys, idPool, mainCache,
                   kvLock, pc, epochIDs, creators, granted, refs>>

\* syncLocalKeys begins a round (the goroutine starts once the initial list
\* is done): the snapshot of the verified local keys is taken.
SyncStart ==
    /\ sync.pc = "idle"
    /\ sync.rounds > 0
    /\ alloc[SyncNode] = "ready"
    /\ initialListDone[SyncNode]
    /\ sync' = SyncReturn([sync EXCEPT !.ids = getVerifiedIDs(localKeys[SyncNode]),
                                       !.rounds = @ - 1, !.err = "nil"])
    /\ SyncQuiet
    /\ UNCHANGED <<slaveKeysMutex, master, slave, left>>

\* syncLocalKey's first check: the key's local ID is still the snapshot's.
SyncCurrent(lk, k, id) == lookupKey(lk, k) = id

\* syncLocalKey is called for an entry of the snapshot (map order: any entry):
\* a key whose local ID is no longer the snapshot's is skipped.
SyncLocalKey(k) ==
    LET s == [sync EXCEPT !.key = k, !.id = sync.ids[k], !.ids[k] = NoID, !.err = "nil"] IN
    /\ sync.pc = "loop"
    /\ sync.ids[k] # NoID
    /\ sync' = IF SyncCurrent(localKeys[SyncNode], k, s.id)
               THEN [s EXCEPT !.pc = "update"]
               ELSE SyncReturn(s)
    /\ SyncQuiet
    /\ UNCHANGED <<slaveKeysMutex, master, slave, left>>

\* syncLocalKey: backend.UpdateKey(ctx, id, key, false) writes the master key
\* if it is missing and the node's secondary key; its error is only logged.
SyncUpdateKey ==
    LET k == sync.key
        had == \E r \in slave : r.node = SyncNode /\ r.key = k
    IN /\ sync.pc = "update"
       /\ \/ /\ master' = RecreateMaster(k, sync.id)
             /\ slave' = AcquireSlave(SyncNode, k, sync.id)
             /\ sync' = [sync EXCEPT !.pc = "recheck",
                                     !.recreated = IF had THEN @ ELSE @ \cup {k}]
             /\ UNCHANGED left
          \/ /\ left.fault > 0
             /\ left' = [left EXCEPT !.fault = @ - 1, !.used = @ + 1]
             /\ sync' = [sync EXCEPT !.pc = "recheck", !.err = "update"]
             /\ UNCHANGED <<master, slave>>
       /\ SyncQuiet
       /\ UNCHANGED slaveKeysMutex

\* (for C30) a syncLocalKey that takes every key for unused.
SyncNeverInUse(lk, k) == FALSE

\* syncLocalKey's second check, without the mutex: a key still in use locally
\* needs no cleanup.
SyncInUse(lk, k) == lookupKey(lk, k) # NoID

SyncRecheck ==
    /\ sync.pc = "recheck"
    /\ sync' = IF SyncInUse(localKeys[SyncNode], sync.key)
               THEN SyncReturn(sync)
               ELSE [sync EXCEPT !.pc = "mutex"]
    /\ SyncQuiet
    /\ UNCHANGED <<slaveKeysMutex, master, slave, left>>

\* syncLocalKey: slaveKeysMutex.Lock() and the third check; the mutex is kept
\* for the release of a key that is unused, else given back at the return.
SyncMutex ==
    /\ sync.pc = "mutex"
    /\ slaveKeysMutex[SyncNode] = "free"
    /\ IF SyncInUse(localKeys[SyncNode], sync.key)
       THEN /\ sync' = SyncReturn(sync)
            /\ UNCHANGED slaveKeysMutex
       ELSE /\ sync' = [sync EXCEPT !.pc = "release"]
            /\ slaveKeysMutex' = [slaveKeysMutex EXCEPT ![SyncNode] = "sync"]
    /\ SyncQuiet
    /\ UNCHANGED <<master, slave, left>>

\* syncLocalKey: backend.Release(ctx, id, key) under the mutex; its error is
\* only logged; the deferred Unlock runs at the return.
SyncRelease ==
    /\ sync.pc = "release"
    /\ slaveKeysMutex' = [slaveKeysMutex EXCEPT ![SyncNode] = "free"]
    /\ \/ /\ slave' = ReleaseSlave(SyncNode, sync.key)
          /\ sync' = SyncReturn([sync EXCEPT !.released = @ \cup {sync.key}])
          /\ UNCHANGED left
       \/ /\ left.fault > 0
          /\ left' = [left EXCEPT !.fault = @ - 1, !.used = @ + 1, !.unreleased = @ + 1]
          /\ sync' = SyncReturn([sync EXCEPT !.err = "release",
                                             !.released = @ \cup {sync.key}])
          /\ UNCHANGED slave
    /\ SyncQuiet
    /\ UNCHANGED master

\* The valid range, node A with its local-key sync goroutine: two goroutines
\* calling Allocate and Release, with a fault; or a goroutine on each of the
\* two nodes, with a fault.
SyncInit ==
    /\ min = 1
    /\ max = MaxID
    /\ maxAllocAttempts = 1
    /\ operatorIDManagement = FALSE
    /\ NoForeign
    /\ \/ /\ callers = {"a1", "a2"}
          /\ parallel = SyncParallel
          /\ left = [alloc |-> SyncAllocs, release |-> SyncReleases, get |-> 0,
                     fault |-> SyncFaults, create |-> 0, used |-> 0,
                     event |-> 0, remove |-> 0, watch |-> 0, stop |-> 0, unreleased |-> 0]
       \/ /\ callers = {"a1", "b1"}
          /\ parallel = SyncParallel
          /\ left = [alloc |-> PairAllocs, release |-> 0, get |-> 0,
                     fault |-> PairFaults, create |-> 0, used |-> 0,
                     event |-> 0, remove |-> 0, watch |-> 0, stop |-> 0, unreleased |-> 0]
    /\ prefixMask = NoMask
    /\ sync = [NoSync EXCEPT !.rounds = SyncRounds]
    /\ gc = NoGC
    /\ Constructed

\* The steps of the nodes with the sync goroutine of node A: Allocate and
\* Release calls, the watch, the loss of the backend's data, the sync rounds.
SyncNext ==
    \/ \E n \in Nodes : ListDone(n)
    \/ \E n \in Nodes : WatchEvent(n)
    \/ DeleteAllKeys
    \/ \E p \in Procs, k \in Keys, c \in BOOLEAN : AllocateCall(p, k, c)
    \/ \E p \in Procs : AllocLoop(p)
    \/ \E p \in Procs : Cancel(p)
    \/ \E p \in Procs : Lock(p)
    \/ \E p \in Procs : GetIfLocked(p)
    \/ \E p \in Procs : LockedLocal(p)
    \/ \E p \in Procs : UpdateKey(p)
    \/ \E p \in Procs : AcquireExisting(p)
    \/ \E p \in Procs : GetNoCache(p)
    \/ \E p \in Procs : AllocateID(p)
    \/ \E p \in Procs : AcquireNew(p)
    \/ \E p \in Procs, k \in Keys, c \in BOOLEAN : ReleaseCall(p, k, c)
    \/ \E p \in Procs : ReleaseLocal(p)
    \/ \E p \in Procs : BackendRelease(p)
    \/ SyncStart
    \/ \E k \in Keys : SyncLocalKey(k)
    \/ SyncUpdateKey
    \/ SyncRecheck
    \/ SyncMutex
    \/ SyncRelease

SyncSpec == SyncInit /\ [][SyncNext]_vars

\* The valid range with a prefix mask, node A: Allocate and Release calls
\* one after the other, with a fault.
MaskInit ==
    /\ min = 1
    /\ max = MaxID
    /\ maxAllocAttempts = 1
    /\ operatorIDManagement = FALSE
    /\ prefixMask \in MaskOptions
    /\ NoForeign
    /\ callers = {"a1"}
    /\ parallel = 1
    /\ left = [alloc |-> MaskAllocs, release |-> MaskReleases, get |-> 0,
               fault |-> MaskFaults, create |-> 0, used |-> 0,
               event |-> 0, remove |-> 0, watch |-> 0, stop |-> 0, unreleased |-> 0]
    /\ sync = NoSync
    /\ gc = NoGC
    /\ Constructed

\* The steps of Allocate and Release on a node whose initial list is done.
MaskNext ==
    \/ ListDone("A")
    \/ \E p \in Procs, k \in Keys, c \in BOOLEAN : AllocateCall(p, k, c)
    \/ \E p \in Procs : AllocLoop(p)
    \/ \E p \in Procs : Cancel(p)
    \/ \E p \in Procs : Lock(p)
    \/ \E p \in Procs : GetIfLocked(p)
    \/ \E p \in Procs : LockedLocal(p)
    \/ \E p \in Procs : AcquireExisting(p)
    \/ \E p \in Procs : GetNoCache(p)
    \/ \E p \in Procs : AllocateID(p)
    \/ \E p \in Procs : AcquireNew(p)
    \/ \E p \in Procs, k \in Keys, c \in BOOLEAN : ReleaseCall(p, k, c)
    \/ \E p \in Procs : ReleaseLocal(p)
    \/ \E p \in Procs : BackendRelease(p)

MaskSpec == MaskInit /\ [][MaskNext]_vars

Next ==
    \/ \E n \in Nodes : ListDone(n)
    \/ \E n \in Nodes : WatchEvent(n)
    \/ RunGC
    \/ DeleteAllKeys
    \/ \E k \in Keys, id \in 1..MaxID : OperatorCreate(k, id)
    \/ \E p \in Procs, k \in Keys, c \in BOOLEAN : AllocateCall(p, k, c)
    \/ \E p \in Procs : AllocLoop(p)
    \/ \E p \in Procs : Cancel(p)
    \/ \E p \in Procs : Lock(p)
    \/ \E p \in Procs : GetIfLocked(p)
    \/ \E p \in Procs : LockedLocal(p)
    \/ \E p \in Procs : UpdateKey(p)
    \/ \E p \in Procs : AcquireExisting(p)
    \/ \E p \in Procs : GetNoCache(p)
    \/ \E p \in Procs : AllocateID(p)
    \/ \E p \in Procs : AcquireNew(p)
    \/ \E p \in Procs, k \in Keys, c \in BOOLEAN : ReleaseCall(p, k, c)
    \/ \E p \in Procs : ReleaseLocal(p)
    \/ \E p \in Procs : BackendRelease(p)
    \/ \E p \in Procs, k \in Keys : GetCall(p, k)
    \/ \E p \in Procs : GetBackend(p)
    \/ \E p \in Procs : GetWithRetry(p)
    \/ \E p \in Procs : RetryWait(p)

Spec == Init /\ [][Next]_vars

\* A step of the call in progress of p: a backend call, a lock acquisition or
\* a backoff wait returns.
ProcStep(p) ==
    \/ AllocLoop(p) \/ Lock(p) \/ GetIfLocked(p) \/ LockedLocal(p) \/ UpdateKey(p)
    \/ AcquireExisting(p) \/ GetNoCache(p) \/ AllocateID(p) \/ AcquireNew(p)
    \/ ReleaseLocal(p) \/ BackendRelease(p) \/ GetBackend(p) \/ GetWithRetry(p)
    \/ RetryWait(p)

\* The steps of node A with remote caches: its own cache follows the backend,
\* remote caches are watched, replaced and removed, and lookups include them.
RemoteNext ==
    \/ ListDone("A")
    \/ \E rc \in RCs : WatchStart(rc)
    \/ \E rc \in RCs, id \in 1..MaxID, v \in Keys \cup {None} : RemoteEvent(rc, id, v)
    \/ \E rc \in RCs : RemoteListDone(rc)
    \/ \E rc \in RCs : CancelWatch(rc)
    \/ \E rc \in RCs : WatchCanceled(rc)
    \/ \E rc \in RCs : DrainCanceled(rc)
    \/ \E rc \in RCs : WatchSynced(rc)
    \/ \E rc \in RCs : DrainOld(rc)
    \/ \E rc \in RCs : WatchStopped(rc)
    \/ \E nm \in RemoteNames : RemoveRemoteKVStore(nm)
    \/ RemoveDrain
    \/ \E p \in Procs, k \in Keys : GetIncludeRemoteCaches(p, k)
    \/ \E p \in Procs, id \in 1..MaxID : GetByIDIncludeRemoteCaches(p, id)
    \/ \E p \in Procs : RemoteCaches(p)
    \/ \E p \in Procs : MainBackend(p)

RemoteSpec == RemoteInit /\ [][RemoteNext]_vars

\* The behaviours in which every backend call and every backoff wait returns,
\* and a lock or mutex that stays free is given to a goroutine that asks for it.
LiveSpec == Spec /\ \A p \in Procs : WF_vars(ProcStep(p))

TypeOK ==
    /\ pc \in [Procs -> {"idle", "AllocLoop", "Lock", "GetIfLocked", "Mutex", "UpdateKey",
                         "AcquireExisting", "GetNoCache", "AllocateID", "AcquireNew",
                         "ReleaseMutex", "BackendRelease", "GetNoCacheCall",
                         "GetWithRetry", "RetryWait", "RemoteCaches", "MainBackend"}]
    /\ remoteCaches \in [RemoteNames -> RCs \cup {None}]
    /\ \A nm \in RemoteNames : remoteCaches[nm] # None => NameOf(remoteCaches[nm]) = nm
    /\ rcCache \in [RCs -> [1..MaxID -> Keys \cup {None}]]
    /\ rcPc \in [RCs -> {"new", "select", "drainCanceled", "canceled", "drainOld",
                         "running", "stopped"}]
    /\ rcOld \in [RCs -> RCs \cup {None}]
    /\ rm.pc \in {"idle", "drain"}
    /\ events.ids \subseteq 1..MaxID
    /\ \A n \in Nodes : slaveKeysMutex[n] \in Procs \cup {"free", "sync"}
    /\ sync.pc \in {"idle", "loop", "update", "recheck", "mutex", "release"}
    /\ sync.ids \in [Keys -> 0..MaxID]
    /\ sync.id \in 0..MaxID
    /\ sync.recreated \subseteq Keys
    /\ sync.released \subseteq Keys
    /\ \A k \in Keys : kvLock[k] \in Procs \cup {"free"}
    /\ \A f \in DOMAIN left : left[f] \in Nat
    /\ gc.closes \in 0..2
    /\ gc.loop \in {"wait", "round", "select", "stopped"}
    /\ gc.watch \in {"none", "new", "select", "running", "canceled", "stopped"}
    /\ gc.rounds \in Nat /\ gc.deletes \in Nat
    /\ {gc.started, gc.listDone, gc.late, gc.ctx} \subseteq BOOLEAN

\* ================================================================== claims
\* What the claims call a cancellation error: the two errors Allocate wraps
\* around ctx.Err().
CancellationErrors == {"cancelled", "keyCancelled"}

\* C1 as stated, for behaviours without any fault: all the successful
\* Allocates of a key made during the life of the key's master key return the
\* same ID.
C1_SameKeySameID ==
    left.used = 0 => \A k \in Keys : Cardinality(epochIDs[k]) <= 1

\* C2 as stated, for behaviours without any fault: no ID is the ID of the
\* master keys of two keys, and no ID is held, from successful Allocates not
\* yet released, for two different keys.
C2_DistinctKeysDistinctIDs ==
    left.used = 0 =>
        /\ \A m1, m2 \in master : m1.id = m2.id => m1.key = m2.key
        /\ \A g1, g2 \in granted : g1.id = g2.id => g1.key = g2.key

\* C3 as stated: when a node, with nothing else running on it, releases a key
\* that it holds from M >= 1 successful Allocates not yet released, the
\* Release returns lastUse = true exactly when M = 1.
C3_LastUseAtLastRelease ==
    (ret.op = "Release" /\ ret.err = "nil" /\ ret.scen = "settled" /\ ret.refs0 >= 1) =>
        (ret.lastUse <=> ret.refs0 = 1)

\* C4: an Allocate of a key for which the node has a local entry when the call
\* starts makes no backend call at all (no Lock, Get, Create, Acquire, Update),
\* and when it succeeds it is the local fast path that answers, with the ID of
\* the entry and (isNew, firstUse) = (false, false); with a live context it
\* does succeed.
C4_FastPathNoBackend ==
    (ret.op = "Allocate" /\ ret.held0 # NoID) =>
        /\ ret.calls = {}
        /\ ret.err = "nil" => (ret.fast /\ ret.id = ret.held0 /\ ~ret.isNew /\ ~ret.firstUse)
        /\ ~ret.ctx0 => ret.err = "nil"

\* C4's case: a second Allocate of a held key has returned through the fast
\* path, the key's master key being the one the first Allocate created.
C4_Witness ==
    /\ ret.op = "Allocate" /\ ret.held0 # NoID /\ ret.fast /\ ret.err = "nil"
    /\ refs[NodeOf(ret.proc)][ret.key] = 2
    /\ [id |-> ret.id, key |-> ret.key] \in master

\* C5 as stated: a nil error from Allocate (and from the GetWithRetry it runs
\* under operatorIDManagement) comes with an ID other than 0, whatever the
\* configuration.
C5_NoZeroIDWithNilError ==
    (ret.op = "Allocate" /\ ret.err = "nil") => ret.id # NoID

\* C6 as stated: an Allocate called with a canceled context returns a
\* cancellation error and has made no backend call, whether or not the
\* initial list is done (stated for maxAllocAttempts >= 1, where the loop of
\* Allocate runs).
C6_CanceledNoBackendCall ==
    (ret.op = "Allocate" /\ ret.ctx0 /\ maxAllocAttempts >= 1) =>
        (ret.err \in CancellationErrors /\ ret.calls = {})

\* C7 as stated, for min = 1 and max = 1: its allocations are made on an
\* allocator of that range, so NewAllocator has to return one.
C7_RangeOfOneID ==
    (min = 1 /\ max = 1) => \A n \in Running : alloc[n] = "ready"

\* C7, for the ranges NewAllocator accepts: an Allocate that runs alone, of a
\* key unknown to the backend, the cache and the local table, on a node whose
\* pool has no ID left, returns the no-available-IDs error and no ID, having
\* created nothing in the backend; and it is never blocked: the lock and the
\* mutex it asks for are free.
C7_PoolExhausted ==
    /\ (ret.op = "Allocate" /\ ret.scen = "exhausted") =>
          /\ ret.err = "noIDs" /\ ret.id = NoID
          /\ ret.calls \cap {"Create", "Acquire", "Update"} = {}
    /\ \A p \in Procs : loc[p].scen = "exhausted" =>
          /\ pc[p] \in {"AllocLoop", "Lock", "GetIfLocked", "Mutex"}
          /\ pc[p] = "Lock" => kvLock[loc[p].key] = "free"
          /\ pc[p] = "Mutex" => slaveKeysMutex[NodeOf(p)] = "free"

\* C7's case: the node holds one key after a successful allocation, the other
\* ID of the range is another member's, and an Allocate of a second key has
\* returned the no-available-IDs error.
C7_Witness ==
    /\ ret.op = "Allocate" /\ ret.scen = "exhausted" /\ ret.err = "noIDs"
    /\ ForeignMaster \in master
    /\ \E k \in Keys \ {ret.key} : refs[NodeOf(ret.proc)][k] > 0

\* C8: an Allocate that runs alone against a working backend returns
\* (an ID of [min, max], isNew = true, firstUse = true, nil) for a key absent
\* from the backend, the cache and the local table, and
\* (the ID the node holds, isNew = false, firstUse = false, nil) for a key the
\* node holds from an earlier Allocate, the ID that every Allocate of the key
\* still held on the node returned.
C8_ReturnFlags ==
    ret.op = "Allocate" =>
        /\ ret.scen = "fresh" =>
              (ret.err = "nil" /\ ret.id \in min..max /\ ret.isNew /\ ret.firstUse)
        /\ ret.scen = "held" =>
              /\ ret.err = "nil" /\ ret.id = ret.held0 /\ ~ret.isNew /\ ~ret.firstUse
              /\ \A g \in granted :
                    (g.node = NodeOf(ret.proc) /\ g.key = ret.key) => g.id = ret.id

\* C8's case: the second Allocate of a key has returned on the node that
\* created the key's master key with the first.
C8_Witness ==
    /\ ret.op = "Allocate" /\ ret.scen = "held" /\ ret.err = "nil" /\ ~ret.isNew
    /\ refs[NodeOf(ret.proc)] = [k \in Keys |-> IF k = ret.key THEN 2 ELSE 0]
    /\ master \ {ForeignMaster} = {[id |-> ret.id, key |-> ret.key]}
    /\ slave \ {ForeignSlave} = {[node |-> NodeOf(ret.proc), key |-> ret.key, id |-> ret.id]}

\* C9: a step of Release leaves the master keys alone and removes no
\* secondary key but the calling node's for the released key; and a Release
\* that has returned has called Backend.Release exactly when its local release
\* was the last use.
C9_ReleaseFrame ==
    [][\A p \in Procs :
          ((loc[p].op = "Release" /\ pc'[p] # pc[p]) \/ (ret'.proc = p /\ ret'.op = "Release")) =>
          /\ master' = master
          /\ slave' \subseteq slave
          /\ \A s \in slave \ slave' : s.node = NodeOf(p) /\ s.key = loc[p].key
          /\ ret'.proc = p => (("Release" \in ret'.calls) <=> ret'.lastUse)]_vars

\* C9's case: a last-use Release has called Backend.Release and the key's
\* master key and another node's secondary key of the key are still there.
C9_Witness ==
    /\ ret.op = "Release" /\ ret.lastUse /\ "Release" \in ret.calls
    /\ \E m \in master : m.key = ret.key
    /\ \E s \in slave : s.key = ret.key /\ s.node # NodeOf(ret.proc)
    /\ ~ \E s \in slave : s.key = ret.key /\ s.node = NodeOf(ret.proc)

\* C10: a Get of a key that the main cache has returns the cached ID with no
\* error and makes no backend call; a Get that called the backend found no
\* entry in the cache.
C10_GetFromCache ==
    ret.op = "Get" =>
        /\ ret.cached0 # NoID => (ret.id = ret.cached0 /\ ret.err = "nil" /\ ret.calls = {})
        /\ ret.calls # {} => ret.cached0 = NoID

\* C10's case: after the initial list, a Get has answered from the cache.
C10_Witness ==
    /\ ret.op = "Get" /\ ret.cached0 # NoID /\ ret.id = ret.cached0 /\ ret.calls = {}
    /\ initialListDone[NodeOf(ret.proc)]

\* C14: NewAllocator returns no allocator when min < 1 or max <= min: such a
\* node has no pool, never completes an initial list and serves no call; an
\* allocator that NewAllocator returned has min >= 1, max > min and a pool of
\* min..max; the allocator of NewAllocatorForGC, whose range is not checked,
\* is not a running one.
C14_ConstructionValidation ==
    /\ RangeInvalid(min, max) => \A n \in Running : alloc[n] = "nil"
    /\ \A n \in Nodes : alloc[n] = "nil" =>
          /\ ~initialListDone[n]
          /\ idPool[n] = <<>>
          /\ \A p \in Procs : NodeOf(p) = n => pc[p] = "idle"
          /\ ret.proc \in Procs => NodeOf(ret.proc) # n
    /\ \A n \in Nodes : alloc[n] = "ready" =>
          (min >= 1 /\ max > min /\ DOMAIN idPool[n] = min..max)
    /\ NewAllocatorForGC(min, max) # "ready"

\* C14's case: NewAllocator was given min = 0 with max > min and returned no
\* allocator.
C14_Witness ==
    /\ min < 1 /\ max > min
    /\ alloc["A"] = "nil"

\* C12: with operatorIDManagement a Release returns (false, nil) in the step
\* of the call, whether or not the initial list is done and whatever its
\* context, having made no backend call and leaving the local keys, the pool,
\* the cache and the backend as they were; no Release is ever in progress.
C12_OperatorReleaseSkipped ==
    [][operatorIDManagement =>
          /\ \A p \in Procs : loc'[p].op # "Release"
          /\ ret'.op = "Release" =>
                /\ pc[ret'.proc] = "idle"
                /\ ~ret'.lastUse /\ ret'.err = "nil" /\ ret'.calls = {}
                /\ UNCHANGED <<nodeVars, backendVars>>]_vars

\* C12's case: with operatorIDManagement a Release has returned before the
\* initial list was done.
C12_Witness ==
    /\ operatorIDManagement
    /\ ret.op = "Release" /\ ret.err = "nil"
    /\ ~initialListDone[NodeOf(ret.proc)]

\* C13: while the initial list of a node is not done, a step of an Allocate
\* or of a Release without operatorIDManagement on that node can only be the
\* return of the cancellation error, of a call whose context is canceled, and
\* leaves the local keys, the pool, the cache and the backend as they were.
C13_NothingBeforeInitialList ==
    [][\A p \in Procs :
          (/\ ~initialListDone[NodeOf(p)]
           /\ ret'.proc = p \/ pc'[p] # pc[p]
           /\ (IF ret'.proc = p THEN ret'.op ELSE loc'[p].op) \in {"Allocate", "Release"}
           /\ ~(ret'.proc = p /\ ret'.op = "Release" /\ operatorIDManagement)) =>
          /\ ret'.proc = p
          /\ ret'.err = "cancelled" /\ ret'.ctx0 /\ ret'.calls = {}
          /\ UNCHANGED <<nodeVars, backendVars>>]_vars

\* C13's case: a Release without operatorIDManagement has returned the
\* cancellation error while the initial list was pending.
C13_Witness ==
    /\ ~operatorIDManagement
    /\ ret.op = "Release" /\ ret.err = "cancelled"
    /\ ~initialListDone[NodeOf(ret.proc)]

\* What a lockedAllocate that failed returns.
AttemptErrors ==
    {"lock", "get", "reserve", "noIDs", "foundMaster", "create", "acquire", "update"}

\* C11 as stated, for behaviours without any fault: with operatorIDManagement
\* the local keys stay empty and no ID is leased, and an Allocate makes
\* no backend call but Get, makes at most maxAllocAttempts attempts, returns
\* isNew = false and firstUse = false, and returns the not-found error when no
\* attempt has found the key's ID.
C11_OperatorAllocateOnlyGets ==
    (operatorIDManagement /\ left.used = 0) =>
        /\ \A n \in Nodes :
              /\ localKeys[n] = [k \in Keys |-> NoEntry]
              /\ \A i \in DOMAIN idPool[n] : idPool[n][i] # "leased"
        /\ ret.op = "Allocate" =>
              /\ ret.calls \subseteq {"Get"}
              /\ ret.tries <= maxAllocAttempts
              /\ ~ret.isNew /\ ~ret.firstUse
              /\ ret.id = NoID => ret.err = "notFound"

\* C19 as stated, for calls made with a live context: an Allocate without
\* operatorIDManagement calls lockedAllocate at most maxAllocAttempts times,
\* and when all its attempts have failed it returns the error of the last
\* attempt.
C19_LastErrorOnExhaustion ==
    (ret.op = "Allocate" /\ ~operatorIDManagement /\ ~ret.ctx0) =>
        /\ ret.tries <= maxAllocAttempts
        /\ (ret.tries >= 1 /\ ret.tries = maxAllocAttempts /\ ret.err # "nil") =>
              (ret.err \in AttemptErrors /\ ret.err = ret.lastErr)

\* C19, with the case of the canceled context set apart: an Allocate
\* without operatorIDManagement calls lockedAllocate at most maxAllocAttempts
\* times; when all its attempts have failed and its context is not canceled
\* when the last backoff wait returns, it returns the error of the last
\* attempt (with a canceled context it returns a cancellation error instead);
\* and it terminates when every backend call and backoff wait returns.
C19_BoundedRetry ==
    /\ [](\A p \in Procs : loc[p].tries <= maxAllocAttempts)
    /\ []((ret.op = "Allocate" /\ ~operatorIDManagement) =>
            /\ ret.tries <= maxAllocAttempts
            /\ (ret.tries >= 1 /\ ret.tries = maxAllocAttempts /\ ret.err # "nil") =>
                  IF ret.ctx THEN ret.err \in {"keyCancelled", "waitCancelled"}
                  ELSE ret.err \in AttemptErrors /\ ret.err = ret.lastErr)
    /\ \A p \in Procs :
          (loc[p].op = "Allocate" /\ ~operatorIDManagement) ~> (pc[p] = "idle")

\* C19's case: with maxAllocAttempts = 2 and a live context an Allocate has
\* returned the error of its second attempt.
C19_Witness ==
    /\ ret.op = "Allocate" /\ ~operatorIDManagement /\ ~ret.ctx
    /\ maxAllocAttempts = 2 /\ ret.tries = 2
    /\ ret.err \in AttemptErrors /\ ret.err = ret.lastErr

\* C20: once the context of an Allocate without operatorIDManagement that is
\* in progress is canceled, a failed attempt is followed by no backoff wait
\* and no further call of lockedAllocate but by the return of the
\* cancellation error, and a backoff wait in progress ends with the return of
\* the wait's error, no attempt having been added; an Allocate returns one of
\* these errors, which are none of the errors of an attempt, only when its
\* context is canceled.
C20_CancelInRetryLoop ==
    [][/\ \A p \in Procs :
            (/\ loc[p].op = "Allocate" /\ ~operatorIDManagement /\ loc[p].ctx
             /\ ret'.proc = p \/ pc'[p] # pc[p]) =>
            /\ pc'[p] \notin {"AllocLoop", "Lock"}
            /\ pc[p] = "AllocLoop" =>
                  (ret'.proc = p /\ ret'.err = "waitCancelled" /\ ret'.tries = loc[p].tries)
            /\ (ret'.proc = p /\ ret'.err # "nil") =>
                  (ret'.err \in {"keyCancelled", "waitCancelled"} /\ ret'.tries = loc[p].tries)
       /\ (ret'.op = "Allocate" /\ ret'.err \in {"cancelled", "keyCancelled", "waitCancelled"}) =>
            (ret'.ctx /\ ret'.err \notin AttemptErrors)]_vars

\* C20's case: the context was canceled during the backoff wait that followed
\* the first failed attempt of two, and Allocate has returned the wait's
\* error without a second attempt.
C20_Witness ==
    /\ ret.op = "Allocate" /\ ~operatorIDManagement
    /\ ~ret.ctx0 /\ ret.ctx
    /\ ret.err = "waitCancelled"
    /\ ret.tries = 1 /\ maxAllocAttempts = 2


\* C18: RemoveRemoteKVStore(name) removes the registration of the name, and of
\* no other name, and then drains the removed cache: a delete event is emitted
\* for every entry it has, and no entry stays.  When the name has no
\* registration the call changes nothing and emits nothing.
C18_RemoveDrainsAll ==
    [][/\ left'.remove < left.remove =>
            /\ remoteCaches' = [remoteCaches EXCEPT ![rm'.name] = None]
            /\ rcCache' = rcCache
            /\ events'.ids = {}
            /\ remoteCaches[rm'.name] = None =>
                    rm'.pc = "idle" /\ remoteCaches' = remoteCaches
            /\ remoteCaches[rm'.name] # None =>
                    rm'.pc = "drain" /\ rm'.old = remoteCaches[rm'.name]
       /\ (rm.pc = "drain" /\ rm'.pc = "idle") =>
            /\ events' = [by |-> "RemoveRemoteKVStore", cache |-> rm.old,
                          ids |-> rcIDs(rcCache[rm.old])]
            /\ rcIDs(rcCache'[rm.old]) = {}
            /\ \A rc \in RCs \ {rm.old} : rcCache'[rc] = rcCache[rc]
            /\ remoteCaches' = remoteCaches
       /\ events'.by = "RemoveRemoteKVStore" => rm.pc = "drain" \/ events' = events]_vars

\* A removal has drained a cache that had entries.
C18_Witness ==
    /\ events.by = "RemoveRemoteKVStore"
    /\ events.ids # {}
    /\ remoteCaches[rm.name] = None

\* C16: when a remote cache completes its first sync while an older cache is
\* registered under its name, the drain of the older cache emits a delete
\* event for exactly the IDs that the older cache has and the new cache has
\* not; the entries of the older cache whose ID the new cache has stay, and
\* the new cache is left as it is.
C16_DrainOnReconnect ==
    [][\A rc \in RCs :
         /\ (rcPc[rc] = "select" /\ rcPc'[rc] = "drainOld") =>
                /\ rcOld'[rc] = remoteCaches[NameOf(rc)]
                /\ rcOld'[rc] # None
                /\ events'.ids = {}
         /\ (rcPc[rc] = "select" /\ rcPc'[rc] = "running") =>
                /\ remoteCaches[NameOf(rc)] = None
                /\ events'.ids = {}
         /\ (rcPc[rc] = "drainOld" /\ rcPc'[rc] # "drainOld") =>
                /\ events' = [by |-> "WatchSynced", cache |-> rcOld[rc],
                              ids |-> rcIDs(rcCache[rcOld[rc]]) \ rcIDs(rcCache[rc])]
                /\ rcIDs(rcCache'[rcOld[rc]]) =
                       rcIDs(rcCache[rcOld[rc]]) \cap rcIDs(rcCache[rc])
                /\ rcCache'[rc] = rcCache[rc]
         /\ (events'.by = "WatchSynced" /\ events'.cache = rc /\ events' # events) =>
                \E new \in RCs : rcPc[new] = "drainOld" /\ rcOld[new] = rc]_vars

\* A reconnection has drained some entries of the older cache and kept others.
C16_Witness ==
    /\ events.by = "WatchSynced"
    /\ events.ids # {}
    /\ rcIDs(rcCache[events.cache]) # {}
    /\ \E rc \in RCs : rcOld[rc] = events.cache /\ remoteCaches[NameOf(rc)] = rc

\* C17: a remote cache whose Watch context is canceled before its first sync
\* is never registered; the cancellation branch leaves the registrations as
\* they are and drains, from the canceled cache only, exactly the entries
\* whose ID the cache registered under its name does not have (all of them
\* when none is registered).  A cache that synced first is registered in one
\* step, in which the prior registration of its name is read and replaced
\* and no other name changes.
C17_WatchOutcomes ==
    [][\A rc \in RCs :
         /\ rc \in canceledFirst => remoteCaches'[NameOf(rc)] # rc
         /\ (remoteCaches'[NameOf(rc)] = rc /\ remoteCaches[NameOf(rc)] # rc) =>
                /\ rcPc[rc] = "select" /\ rcListDone[rc]
                /\ rcOld'[rc] = remoteCaches[NameOf(rc)]
                /\ remoteCaches' = [remoteCaches EXCEPT ![NameOf(rc)] = rc]
                /\ rcCache' = rcCache
         /\ (rcPc[rc] = "select" /\ rcPc'[rc] = "drainCanceled") =>
                /\ rcCtx[rc]
                /\ rcOld'[rc] = remoteCaches[NameOf(rc)]
                /\ remoteCaches' = remoteCaches
                /\ rcCache' = rcCache
                /\ events'.ids = {}
         /\ (rcPc[rc] = "drainCanceled" /\ rcPc'[rc] # "drainCanceled") =>
                /\ remoteCaches' = remoteCaches
                /\ events' = [by |-> "WatchCanceled", cache |-> rc,
                              ids |-> IF rcOld[rc] = None THEN rcIDs(rcCache[rc])
                                      ELSE rcIDs(rcCache[rc]) \ rcIDs(rcCache[rcOld[rc]])]
                /\ rcIDs(rcCache'[rc]) = rcIDs(rcCache[rc]) \ events'.ids
                /\ \A o \in RCs \ {rc} : rcCache'[o] = rcCache[o]]_vars

\* C15: GetIncludeRemoteCaches and GetByIDIncludeRemoteCaches answer from the
\* main cache when it has the entry; else from a registered remote cache that
\* has it; else from the main backend.  The only backend call they make is the
\* Get or GetByID of the main backend, and they change neither LocalKeys, the
\* IDPool, the caches, the registrations nor the backend.
C15_LookupOrder ==
    [][\A p \in Procs :
         LET l == IF pc[p] = "idle" THEN loc'[p] ELSE loc[p]
             r == ret'
             byKey == l.op = "GetIncludeRemoteCaches" \/ r.op = "GetIncludeRemoteCaches"
             inMain == IF byKey THEN cacheGet(mainCache["A"], r.key) = r.id /\ r.id # NoID
                       ELSE r.key \in cacheGetByID(mainCache["A"], r.id)
             mainHas(x) == IF x.op = "GetIncludeRemoteCaches"
                           THEN cacheGet(mainCache["A"], x.key) # NoID
                           ELSE cacheGetByID(mainCache["A"], x.id) # {}
             remoteHas(rc, x) == IF x.op = "GetIncludeRemoteCaches"
                                 THEN \E i \in 1..MaxID : rcCache[rc][i] = x.key
                                 ELSE rcCache[rc][x.id] # None
             started == /\ pc[p] = "idle"
                        /\ left'.get < left.get
                        /\ pc'[p] # "idle" \/ r.proc = p
             lookup == started \/ pc[p] \in {"RemoteCaches", "MainBackend"}
         IN /\ ((lookup /\ pc'[p] # pc[p]) \/ started) =>
                  /\ UNCHANGED <<nodeVars, backendVars, remoteCaches, rcCache, rcPc, rcClosed,
                                 epochIDs, creators, granted, refs>>
                  /\ IF pc'[p] = "idle" THEN r.calls \subseteq {"Get", "GetByID"}
                     ELSE loc'[p].calls = {}
            /\ started =>
                  /\ mainHas(IF pc'[p] = "idle" THEN r ELSE loc'[p]) =>
                        pc'[p] = "idle" /\ r.proc = p /\ r.from = "main" /\ r.err = "nil"
                        /\ inMain /\ r.calls = {}
                  /\ ~mainHas(IF pc'[p] = "idle" THEN r ELSE loc'[p]) =>
                        pc'[p] = "RemoteCaches"
            /\ pc[p] = "RemoteCaches" /\ pc'[p] # pc[p] =>
                  IF \E rc \in Registered : remoteHas(rc, loc[p])
                  THEN /\ pc'[p] = "idle" /\ r.proc = p /\ r.from = "remote" /\ r.err = "nil"
                       /\ r.calls = {}
                       /\ \E rc \in Registered :
                             rcCache[rc][r.id] = r.key /\ r.key # None
                       /\ IF loc[p].op = "GetIncludeRemoteCaches" THEN r.key = loc[p].key
                          ELSE r.id = loc[p].id
                  ELSE pc'[p] = "MainBackend"
            /\ pc[p] = "MainBackend" /\ pc'[p] # pc[p] =>
                  /\ pc'[p] = "idle" /\ r.proc = p /\ r.from = "backend"
                  /\ r.err = "nil" =>
                        IF loc[p].op = "GetIncludeRemoteCaches"
                        THEN r.key = loc[p].key /\ r.id \in BackendGet(loc[p].key)
                        ELSE /\ r.id = loc[p].id
                             /\ IF BackendGetByID(loc[p].id) = {} THEN r.key = None
                                ELSE r.key \in BackendGetByID(loc[p].id)]_vars

\* A lookup was answered by a remote cache: the main cache does not have the
\* entry and the backend does not have it either.
C15_Witness ==
    /\ ret.op \in {"GetIncludeRemoteCaches", "GetByIDIncludeRemoteCaches"}
    /\ ret.from = "remote"
    /\ ret.key \notin cacheGetByID(mainCache["A"], ret.id)
    /\ ret.id \notin BackendGet(ret.key)
    /\ Cardinality(Registered) = 2

\* C22: when lockedAllocate finds no available ID in the pool, and the context
\* of the Allocate is not canceled, the Allocate returns the exhaustion error
\* in that step: no backoff wait and no further attempt follow.
C22_ExhaustionNotRetried ==
    [][\A p \in Procs :
         (/\ pc[p] = "Mutex" /\ pc'[p] # "Mutex" /\ ~loc[p].ctx
          /\ (IF pc'[p] = "idle" THEN ret'.lastErr ELSE loc'[p].err) = "noIDs") =>
         (pc'[p] = "idle" /\ ret'.proc = p /\ ret'.err = "noIDs")]_vars

\* C24 as stated: the main cache of a node changes only in a step of its
\* watch/list stream, never in a step of an Allocate call.
C24_CacheOnlyFromWatch ==
    [][\A n \in Nodes :
         mainCache'[n] # mainCache[n] => (pc' = pc /\ ret' = NoRet)]_vars

\* C24, with Allocate's own insert taken in: the main cache of a node changes
\* only in a step of its watch/list stream and in the step in which an
\* Allocate of the node returns an ID without error.  Such an Allocate, on the
\* fast path or after a successful lockedAllocate, leaves the cache with the
\* mapping of its key to the ID it returns and with every other entry as it
\* was; an Allocate step that returns an error or does not return changes no
\* entry.
C24_CacheFromWatchOrInsert ==
    [][\A n \in Nodes :
         /\ mainCache'[n] # mainCache[n] =>
               \/ pc' = pc /\ ret' = NoRet
               \/ /\ ret'.op = "Allocate" /\ ret'.err = "nil" /\ ret'.id # NoID
                  /\ NodeOf(ret'.proc) = n
         /\ (/\ ret'.op = "Allocate" /\ ret'.err = "nil" /\ ret'.id # NoID
             /\ ~operatorIDManagement /\ NodeOf(ret'.proc) = n) =>
               mainCache'[n] = [mainCache[n] EXCEPT ![ret'.key] = ret'.id]]_vars

\* The fast path has returned an ID whose mapping the main cache did not have
\* and now has: the watch has not delivered it.
C24_Witness ==
    /\ ret.op = "Allocate" /\ ret.err = "nil" /\ ret.fast
    /\ mainCache[NodeOf(ret.proc)][ret.key] = ret.id
    /\ ret.id \notin BackendGet(ret.key)

\* C25: when an Allocate without operatorIDManagement has returned an ID and
\* no error, the main cache of the node maps the key to that ID in the state
\* of the return, so that a Get of the key made next on the node answers from
\* the cache with that ID, whatever the watch has delivered.
C25_VisibleAtReturn ==
    (ret.op = "Allocate" /\ ret.err = "nil" /\ ret.id # NoID /\ ~operatorIDManagement) =>
        /\ GetUsesCache(mainCache[NodeOf(ret.proc)], ret.key)
        /\ cacheGet(mainCache[NodeOf(ret.proc)], ret.key) = ret.id

\* A new ID has been returned by an Allocate whose node had no cache entry
\* for the key when the call began; the cache has the mapping at the return.
C25_Witness ==
    /\ ret.op = "Allocate" /\ ret.err = "nil" /\ ret.isNew /\ ~ret.fast
    /\ ret.cached0 = NoID
    /\ cacheGet(mainCache[NodeOf(ret.proc)], ret.key) = ret.id

\* C26: the ID that lockedAllocate takes for the key under the key's backend
\* lock is one the backend has for the key at that time (NoID when it has
\* none), whatever the main cache of the node holds.
C26_LockedLookupReadsBackend ==
    [][\A p \in Procs :
         (pc[p] = "GetIfLocked" /\ pc'[p] = "Mutex") =>
            loc'[p].value \in BackendGet(loc[p].key)]_vars

\* The places of lockedAllocate between the acquisition of the backend lock
\* and its return.
HoldsKeyLock ==
    {"GetIfLocked", "Mutex", "UpdateKey", "AcquireExisting", "GetNoCache", "AllocateID",
     "AcquireNew"}

\* C27: the backend lock of a key is held only by a goroutine that is inside
\* lockedAllocate for that key, past backend.Lock; it is acquired only by
\* backend.Lock of lockedAllocate; and the step in which lockedAllocate
\* returns, with success, with any error or with the caller's context
\* canceled, leaves the lock free.  No lock is held by a goroutine whose
\* Allocate has returned or waits between two attempts.
C27_LockDiscipline ==
    /\ [](\A k \in Keys :
            kvLock[k] # "free" =>
               /\ pc[kvLock[k]] \in HoldsKeyLock
               /\ loc[kvLock[k]].op = "Allocate" /\ loc[kvLock[k]].key = k)
    /\ [][\A k \in Keys :
            /\ (kvLock'[k] # kvLock[k] /\ kvLock'[k] # "free") =>
                  (kvLock[k] = "free" /\ pc[kvLock'[k]] = "Lock"
                   /\ pc'[kvLock'[k]] = "GetIfLocked")
            /\ \A p \in Procs :
                  (pc[p] \in HoldsKeyLock /\ pc'[p] \notin HoldsKeyLock /\ loc[p].key = k) =>
                     kvLock'[k] = "free"]_vars

\* An Allocate whose context was canceled while it held the backend lock has
\* returned the cancellation error after a failed backend call, and the lock
\* of its key is free.
C27_Witness ==
    /\ ret.op = "Allocate" /\ ret.ctx /\ ~ret.ctx0
    /\ ret.err = "keyCancelled"
    /\ ret.lastErr \in {"get", "update", "create", "acquire"}
    /\ kvLock[ret.key] = "free"

\* C28: a Release whose call of Backend.Release failed returns an error.
C28_ReleaseErrorReturned ==
    (ret.op = "Release" /\ ret.lastErr = "release") => ret.err # "nil"

\* C23: when an attempt of lockedAllocate that has taken the backend lock
\* returns an error, the local reservation it made is undone and nothing
\* else: the LocalKeys entry of the key is as the attempt found it (the entry
\* after one release when the attempt had reserved, the entry itself when it
\* had not), no other entry changes, and the ID the attempt leased is
\* available in the pool again, the pool being otherwise as it was.
C23_FullUnwind ==
    [][\A p \in Procs :
         LET n == NodeOf(p)
             k == loc[p].key
         IN (/\ pc[p] \in HoldsKeyLock /\ pc'[p] \notin HoldsKeyLock
             /\ pc'[p] = "AllocLoop" \/ (ret'.proc = p /\ ret'.err # "nil")) =>
            /\ localKeys'[n] = IF loc[p].reserved THEN releaseKeys(localKeys[n], k)
                               ELSE localKeys[n]
            /\ idPool'[n] = IF loc[p].unmaskedID # NoID
                            THEN [idPool[n] EXCEPT ![loc[p].unmaskedID] = "avail"]
                            ELSE idPool[n]]_vars

\* The sync goroutine is between two syncLocalKey calls and no Allocate or
\* Release is in progress.
SyncSettled ==
    /\ sync.pc \in {"idle", "loop"}
    /\ \A p \in Procs : pc[p] = "idle"

\* The secondary key of the sync's node for key k exists in the backend.
SyncSlave(k) == \E r \in slave : r.node = SyncNode /\ r.key = k

\* C29 as stated: in behaviours where no Backend.Release fails, whenever
\* syncLocalKey has returned and no operation is in flight, a key whose
\* secondary key the sync's UpdateKey wrote anew and that has no local
\* reference has no secondary key of the node in the backend; and syncLocalKey
\* goes on to its UpdateKey only for a key whose local ID is the snapshot's.
C29_ResyncLeaksNothing ==
    /\ []((left.unreleased = 0 /\ SyncSettled) =>
            \A k \in sync.recreated :
                lookupKey(localKeys[SyncNode], k) = NoID => ~SyncSlave(k))
    /\ [][(sync.pc = "loop" /\ sync'.pc = "update") =>
            lookupKey(localKeys[SyncNode], sync'.key) = sync'.id]_vars

\* Backend.Release is issued in this step on node n for key k, by Release or
\* by syncLocalKey.
ReleaseIssued(n, k) ==
    \/ \E p \in Procs : /\ NodeOf(p) = n
                        /\ pc[p] = "BackendRelease" /\ pc'[p] # "BackendRelease"
                        /\ loc[p].key = k
    \/ /\ n = SyncNode
       /\ sync.pc = "release" /\ sync'.pc # "release"
       /\ sync.key = k

\* C30 as stated: Backend.Release is issued for a key only while the node's
\* local refcount of the key is zero, and, the backend having lost and failed
\* nothing so far, only while the node's secondary key exists, that is never
\* a second time for a reference that a Backend.Release has dropped already.
C30_NoReleaseInUseNoDoubleFree ==
    [][\A n \in Nodes, k \in Keys :
         ReleaseIssued(n, k) =>
            /\ localKeys[n][k].refcnt = 0
            /\ left.used = 0 => \E r \in slave : r.node = n /\ r.key = k]_vars

\* C30 as the code has it: Backend.Release is issued for a key only by the
\* goroutine that holds the node's slaveKeysMutex and only while the node's
\* local refcount of the key is zero; the one that Release issues finds, the
\* backend having lost and failed nothing so far, the node's secondary key;
\* the one that syncLocalKey issues may come second, after that of Release.
C30_ReleaseOnlyUnused ==
    [][\A n \in Nodes, k \in Keys :
         ReleaseIssued(n, k) =>
            /\ localKeys[n][k].refcnt = 0
            /\ lookupKey(localKeys[n], k) = NoID
            /\ slaveKeysMutex[n] # "free"
            /\ slaveKeysMutex[n] = "sync" <=> (n = SyncNode /\ sync.pc = "release")
            /\ (left.used = 0 /\ slaveKeysMutex[n] # "sync") =>
                  \E r \in slave : r.node = n /\ r.key = k]_vars

\* C30's case: with nothing lost and nothing failed, syncLocalKey has issued
\* Backend.Release for a key whose secondary key its UpdateKey had not written
\* anew, that is after the last Release of the key had issued its own.
C30_Witness ==
    /\ left.used = 0
    /\ sync.released # {}
    /\ sync.recreated = {}
    /\ \A k \in sync.released : refs[SyncNode][k] = 0 /\ ~SyncSlave(k)


\* C21 as stated: a master key that a step creates for key k carries the ID
\* of every master key that k has already and the ID under which any node
\* holds k locally (verified against the backend), so that the backend maps k
\* to one ID only, across Allocate, Release, the sync rounds, the re-creation
\* of master keys and the loss of the backend's data.
C21_StableGlobalID ==
    [][\A m \in master' \ master :
         /\ \A x \in master : x.key = m.key => x.id = m.id
         /\ \A n \in Nodes :
              localKeys[n][m.key].verified => localKeys[n][m.key].val = m.id]_vars

\* C31: IDPool.Use promotes the ID that a lockedAllocate has leased only in
\* the step in which the backend's conditional create of the master key of
\* that ID succeeds, and when the lockedAllocate returns the ID is not left
\* leased: it is in use, or back in the pool.
C31_LeaseDiscipline ==
    [][\A p \in Procs :
         LET n == NodeOf(p)
             i == loc[p].unmaskedID
         IN (pc[p] \in HoldsKeyLock /\ i # NoID /\ pc'[p] # pc[p]) =>
              /\ (idPool[n][i] = "leased" /\ idPool'[n][i] = "used") =>
                    /\ pc[p] = "AllocateID"
                    /\ [id |-> i, key |-> loc[p].key] \in master' \ master
              /\ pc'[p] \notin HoldsKeyLock => idPool'[n][i] # "leased"]_vars

\* C31's case: an attempt that leased an ID, created its master key and saw
\* the ID promoted has failed at AcquireReference and has returned from
\* lockedAllocate with no ID of the pool left leased.
C31_Witness ==
    \E p \in Procs :
        /\ pc[p] = "AllocLoop"
        /\ loc[p].err = "acquire"
        /\ "Create" \in loc[p].calls
        /\ \A i \in DOMAIN idPool[NodeOf(p)] : idPool[NodeOf(p)][i] # "leased"

\* The steps of lockedAllocate that come after the lease of a new ID.
HoldsLease == {"GetNoCache", "AllocateID", "AcquireNew"}

\* C32: the ID that lockedAllocate selects is the leased pool ID OR
\* prefixMask; the master key it creates and the ID that Allocate returns as
\* new carry that ID, which has every bit of prefixMask set; IDPool.Use and
\* IDPool.Release are given the unmasked leased ID, which lies in min..max.
C32_PrefixMask ==
    [][\A p \in Procs :
         LET n == NodeOf(p)
             u == loc[p].unmaskedID
             leased == loc'[p].unmaskedID
         IN /\ (pc[p] = "Mutex" /\ pc'[p] = "GetNoCache") =>
                 /\ leased \in min..max
                 /\ idPool[n][leased] = "avail" /\ idPool'[n][leased] = "leased"
                 /\ loc'[p].id = BitOr(leased, prefixMask)
                 /\ BitOr(loc'[p].id, prefixMask) = loc'[p].id
            /\ (pc[p] = "AllocateID" /\ pc'[p] = "AcquireNew") =>
                 /\ u \in min..max
                 /\ idPool'[n] = [idPool[n] EXCEPT ![u] = "used"]
                 /\ master' \ master = {[id |-> BitOr(u, prefixMask), key |-> loc[p].key]}
            /\ (pc[p] \in HoldsLease /\ pc'[p] \notin HoldsLease) =>
                 IF ret'.proc = p /\ ret'.err = "nil"
                 THEN /\ ret'.isNew
                      /\ ret'.id = BitOr(u, prefixMask)
                      /\ BitOr(ret'.id, prefixMask) = ret'.id
                      /\ idPool'[n] = idPool[n]
                 ELSE /\ u \in min..max
                      /\ idPool'[n] = [idPool[n] EXCEPT ![u] = "avail"]]_vars

\* C32's case: with the mask above the range, Allocate has returned a new ID
\* outside min..max, and the pool has the unmasked ID in use.
C32_Witness ==
    /\ prefixMask = MaxMask
    /\ ret.op = "Allocate" /\ ret.err = "nil" /\ ret.isNew
    /\ ret.id > max
    /\ idPool[NodeOf(ret.proc)][ret.id - prefixMask] = "used"

\* ------------------------------------------- Delete and the sync loop
\* Behaviours of Delete and of the sync loop of one allocator: the number of
\* Delete calls its owner makes and of syncLocalKeys rounds that are followed.
StopDeletes == 2
StopRounds == 3

\* What the steps of Delete, of the sync loop and of the Watch of the
\* allocator leave alone.
GcOnly ==
    UNCHANGED <<min, max, maxAllocAttempts, operatorIDManagement, prefixMask, callers, parallel,
                sync, nodeVars, backendVars, procVars, histVars, remoteVars>>

\* The process has not panicked (a close of a closed channel panics).
Alive == gc.closes < 2

\* Delete: close(a.stopGC), then the cache is stopped.
Delete(g) == [g EXCEPT !.closes = @ + 1]

\* The owner of the allocator calls Delete.
DeleteCall ==
    /\ Alive
    /\ gc.deletes > 0
    /\ gc' = [Delete(gc) EXCEPT !.deletes = @ - 1]
    /\ GcOnly

\* The first full list of the allocator's cache completes (the cache runs
\* since start and until Delete stops it): initialListDone is closed.
InitialListDone ==
    /\ Alive
    /\ gc.started
    /\ gc.closes = 0
    /\ ~gc.listDone
    /\ gc' = [gc EXCEPT !.listDone = TRUE]
    /\ GcOnly

\* The goroutine of start: once initialListDone is closed it calls
\* startLocalKeySync, whose loop begins with a syncLocalKeys round.
startLocalKeySync ==
    /\ Alive
    /\ gc.started
    /\ gc.loop = "wait"
    /\ gc.listDone
    /\ gc' = [gc EXCEPT !.loop = "round", !.rounds = 1, !.late = gc.closes > 0]
    /\ GcOnly

\* The syncLocalKeys round of the loop returns: the loop is at its select.
RoundDone ==
    /\ Alive
    /\ gc.loop = "round"
    /\ gc' = [gc EXCEPT !.loop = "select"]
    /\ GcOnly

\* The select of the loop: with stopGC closed the goroutine returns; else
\* the timer of syncInterval fires and the next round begins.
LoopSelect ==
    /\ Alive
    /\ gc.loop = "select"
    /\ \/ /\ gc.closes > 0
          /\ gc' = [gc EXCEPT !.loop = "stopped"]
       \/ /\ gc.closes = 0
          /\ gc.rounds < StopRounds
          /\ gc' = [gc EXCEPT !.loop = "round", !.rounds = @ + 1]
    /\ GcOnly

\* Watch of the remote cache made for the allocator: rc.allocator.start(),
\* and the Watch is at its select.
WatchBegin ==
    /\ Alive
    /\ gc.watch = "new"
    /\ gc' = [gc EXCEPT !.watch = "select", !.started = TRUE]
    /\ GcOnly

\* The context given to the Watch is canceled.
WatchCancel ==
    /\ Alive
    /\ gc.watch \in {"select", "running"}
    /\ ~gc.ctx
    /\ gc' = [gc EXCEPT !.ctx = TRUE]
    /\ GcOnly

\* The select of the Watch: with the context canceled, rc.close() (that is
\* Delete of the allocator) and the Watch returns; with listDone closed the
\* cache is registered and the Watch waits for the end of the context.
WatchSelect ==
    /\ Alive
    /\ gc.watch = "select"
    /\ \/ /\ gc.ctx
          /\ gc' = [Delete(gc) EXCEPT !.watch = "canceled"]
       \/ /\ gc.listDone
          /\ gc' = [gc EXCEPT !.watch = "running"]
    /\ GcOnly

\* The Watch after its registration, <-ctx.Done(): rc.close().
WatchEnd ==
    /\ Alive
    /\ gc.watch = "running"
    /\ gc.ctx
    /\ gc' = [Delete(gc) EXCEPT !.watch = "stopped"]
    /\ GcOnly

\* One allocator with its garbage collector enabled: started by NewAllocator,
\* or made without autostart for a remote cache whose Watch starts it.
StopInit ==
    /\ min = 1
    /\ max = MaxID
    /\ maxAllocAttempts = 1
    /\ operatorIDManagement = FALSE
    /\ NoForeign
    /\ callers = {"a1"}
    /\ parallel = 1
    /\ left = [alloc |-> 0, release |-> 0, get |-> 0, fault |-> 0, create |-> 0, used |-> 0,
               event |-> 0, remove |-> 0, watch |-> 0, stop |-> 0, unreleased |-> 0]
    /\ prefixMask = NoMask
    /\ sync = NoSync
    /\ \/ gc = [NoGC EXCEPT !.started = TRUE, !.deletes = StopDeletes]
       \/ gc = [NoGC EXCEPT !.watch = "new", !.deletes = StopDeletes]
    /\ Constructed

\* The steps of Delete, of the sync loop and of the Watch.
StopNext ==
    \/ DeleteCall
    \/ InitialListDone
    \/ startLocalKeySync
    \/ RoundDone
    \/ LoopSelect
    \/ WatchBegin
    \/ WatchCancel
    \/ WatchSelect
    \/ WatchEnd

StopSpec == StopInit /\ [][StopNext]_vars

\* C33: the stopGC channel is closed at most once, and no syncLocalKeys
\* round begins after it was closed.
C33_OneShotStop ==
    /\ gc.closes <= 1
    /\ ~gc.late

\* C34: in non-operator mode, whenever no call is in progress, the local
\* refcount of every key on every node is the number of its successful
\* Allocates less the number of its successful Releases.
C34_RefcountBalance ==
    (~operatorIDManagement /\ \A p \in Procs : pc[p] = "idle") =>
        \A n \in Nodes, k \in Keys : localKeys[n][k].refcnt = refs[n][k]

\* C35: when an attempt of lockedAllocate that has reserved the key in
\* LocalKeys for a newly leased ID fails and unwinds, a caller that still
\* holds the key locally (it took the fast path during the reservation) holds
\* an ID that has its master key in the backend and that is not available in
\* the node's pool.
C35_NoUnconfirmedEscape ==
    [][\A p \in Procs :
         LET n == NodeOf(p)
             k == loc[p].key
             i == loc[p].unmaskedID
         IN (/\ pc[p] \in HoldsLease /\ loc[p].reserved /\ i # NoID
             /\ pc'[p] \notin HoldsKeyLock
             /\ pc'[p] = "AllocLoop" \/ (ret'.proc = p /\ ret'.err # "nil")
             /\ lookupKey(localKeys'[n], k) # NoID) =>
            /\ idPool'[n][i] # "avail"
            /\ \E m \in master' : m.key = k /\ m.id = lookupKey(localKeys'[n], k)]_vars

\* C36: during the life of a key's master key at most one Allocate of the
\* key, over all nodes, returns isNew = true.
C36_SingleCreator ==
    \A k \in Keys : creators[k] <= 1

\* C36's case: an Allocate has returned isNew = true for a key that had no
\* master key while an Allocate of the same key on the other node, begun when
\* that node knew no ID for the key, is in progress and waits for the key's
\* backend lock.
C36_Witness ==
    /\ ret.op = "Allocate" /\ ret.err = "nil" /\ ret.isNew
    /\ creators[ret.key] = 1
    /\ \E q \in Procs :
         /\ NodeOf(q) # NodeOf(ret.proc)
         /\ pc[q] = "Lock"
         /\ loc[q].key = ret.key
         /\ loc[q].cached0 = NoID

\* The goroutines that take locks: the callers and the sync goroutine.
Agents == Procs \cup {"sync"}

\* The goroutine is inside a call.
InCall(a) == IF a = "sync" THEN sync.pc # "idle" ELSE pc[a] # "idle"

\* The holder of the lock or mutex that the goroutine is blocked on, "free"
\* when it is not blocked: backend.Lock of lockedAllocate, and
\* slaveKeysMutex.Lock() of lockedAllocate, Release and syncLocalKey.
WaitsFor(a) ==
    IF a = "sync"
    THEN IF sync.pc = "mutex" THEN slaveKeysMutex[SyncNode] ELSE "free"
    ELSE IF pc[a] = "Lock" THEN kvLock[loc[a].key]
    ELSE IF pc[a] \in {"Mutex", "ReleaseMutex"} THEN slaveKeysMutex[NodeOf(a)]
    ELSE "free"

\* Every goroutine of S is blocked on a lock whose holder is in S, or is a
\* goroutine that has left its call without the unlock.
Deadlocked(S) ==
    /\ S # {}
    /\ \A a \in S : /\ WaitsFor(a) # "free"
                    /\ WaitsFor(a) \in S \/ ~InCall(WaitsFor(a))

\* C37: no set of calls wait for each other on the backend locks and
\* slaveKeysMutex; a lockedAllocate that holds slaveKeysMutex holds the
\* backend lock of its key (it took it first); and a goroutine that asks for
\* a backend lock does not hold slaveKeysMutex.
C37_NoDeadlock ==
    /\ \A S \in SUBSET Agents : ~Deadlocked(S)
    /\ \A p \in Procs :
         /\ (slaveKeysMutex[NodeOf(p)] = p /\ loc[p].op = "Allocate") =>
                kvLock[loc[p].key] = p
         /\ pc[p] = "Lock" => slaveKeysMutex[NodeOf(p)] # p

\* C37's case: a lockedAllocate that holds the backend lock of its key is
\* blocked on slaveKeysMutex, which syncLocalKey holds for its
\* Backend.Release.
C37_Witness ==
    \E p \in Procs :
        /\ pc[p] = "Mutex" /\ kvLock[loc[p].key] = p
        /\ WaitsFor(p) = "sync"
        /\ sync.pc = "release"

\* C38: once a RemoveRemoteKVStore of a name has returned, the cache
\* registered under the name, if any, is not one whose Watch had started
\* before the removal.
C38_RemovalFinal ==
    rm.pc = "idle" => \A rc \in rm.before : remoteCaches[rm.name] # rc

\* C39: a lockedAllocate that has no ID for the key from the cache and the
\* backend while LocalKeys holds the key with ID v goes on to
\* UpdateKeyIfLocked(v, key, true) without a lease and without a change of
\* LocalKeys; when the update succeeds the master key of v exists (it is the
\* key's when no master key had that ID) and the pool and LocalKeys are as
\* they were; when it fails the attempt ends with an error, LocalKeys, the
\* pool and the master keys unchanged; and an Allocate that returns from this
\* path with a nil error returns v with isNew = false, having leased no ID.
C39_Recreate ==
    [][\A p \in Procs :
         LET n == NodeOf(p)
             k == loc[p].key
             held == lookupKey(localKeys[n], k)
             v == loc[p].value
         IN /\ (pc[p] = "Mutex" /\ pc'[p] # "Mutex" /\ v = NoID /\ held # NoID) =>
                 /\ pc'[p] = "UpdateKey"
                 /\ loc'[p].value = held
                 /\ loc'[p].unmaskedID = NoID
                 /\ idPool' = idPool /\ localKeys' = localKeys
            /\ (pc[p] = "UpdateKey" /\ pc'[p] # "UpdateKey") =>
                 /\ idPool' = idPool /\ localKeys' = localKeys
                 /\ \/ /\ pc'[p] = "AcquireExisting"
                       /\ \E m \in master' : m.id = v
                       /\ (\A m \in master : m.id # v) => [id |-> v, key |-> k] \in master'
                    \/ /\ pc'[p] = "AllocLoop" \/ (ret'.proc = p /\ ret'.err # "nil")
                       /\ master' = master
            /\ (/\ pc[p] = "AcquireExisting" /\ "Update" \in loc[p].calls
                /\ ret'.proc = p /\ ret'.err = "nil") =>
                 /\ ret'.id = v /\ ~ret'.isNew
                 /\ loc[p].unmaskedID = NoID
                 /\ idPool' = idPool]_vars

\* C39's case: an Allocate has returned through the re-creation of the
\* master key: it called UpdateKeyIfLocked, created no master key by a
\* conditional create, and returned the ID that LocalKeys held, not as new.
C39_Witness ==
    /\ ret.op = "Allocate" /\ ret.err = "nil"
    /\ "Update" \in ret.calls /\ "Create" \notin ret.calls
    /\ ret.id # NoID /\ ~ret.isNew
    /\ ret.id = lookupKey(localKeys[NodeOf(ret.proc)], ret.key)
    /\ [id |-> ret.id, key |-> ret.key] \in master

\* C40: every remote cache that is registered in remoteCaches has completed
\* its first full list (its listDone is closed), so the lookups that include
\* the remote caches read only caches that have synced.
C40_OnlySyncedRegistered ==
    \A nm \in RemoteNames :
        remoteCaches[nm] # None => rcListDone[remoteCaches[nm]]

\* C40's case: a cache is registered under a name while the Watch of another
\* cache of the same name has started and has not completed its first list:
\* that cache is not the registered one.
C40_Witness ==
    \E rc, o \in RCs :
        /\ rc # o /\ NameOf(rc) = NameOf(o)
        /\ remoteCaches[NameOf(rc)] = rc /\ rcListDone[rc]
        /\ rcPc[o] = "select" /\ ~rcListDone[o]
====
